---- MODULE Spec2Model ----
(***************************************************************************)
(* Verification models of the puzzle solvers of adventofcode-2022.  Every *)
(* solver is independent of the others, so every solver has its own       *)
(* variables, its own initial predicate and its own next-state relation;   *)
(* a specification of one solver keeps the variables of the other solvers  *)
(* at their idle value.                                                    *)
(***************************************************************************)
EXTENDS Integers, Sequences, FiniteSets, Bags, TLC

VARIABLES
    \* day 24
    input24, entry24, board24, legs24, queue24, seen24, time24, returns24, pc24,
    \* day 16
    valves16, budget16, entry16, graph16, stack16, best_score16, memo16, scored16, pc16,
    \* day 12
    input12, entry12, grid12, queue12, seen12, yielded12, best12, result12, pc12,
    \* day 15
    input15, entry15, param15, areas15, ranges15, rows15, i15, result15, pc15,
    \* day 17
    input17, count17, board17, dirs17, shapes17, iteration17, cache17, loop17,
    left17, looped17, result17, pc17,
    \* day 13
    input13, packets13, i13, factors13, result13, pc13,
    \* day 21
    input21, monkeys21, order21, expr21, result21, pc21,
    \* day 23
    input23, entry23, positions23, directions23, will_propose23, proposals23, destination_counts23, good_proposals23, i23, moved23, result23, pc23,
    \* Day 19: the blueprint, compute's result and a build schedule
    blueprint19, minutes19, result19, robots19, resources19, budget19, pc19,
    \* Day 18: the droplet and the exterior surface area
    build18, origin18, cubes18, total_surface_area18, bbox18, result18, pc18,
    \* Day 25: a number, its base-5 text and the number read back
    build25, base_10_25, base_5_25, result25, pc25,
    \* Day 24, a WindTracker alone: the tracker, the winds set and the last is_clear call
    trackerWT, rightwardWT, leftwardWT, timeWT, posWT, clearWT, pcWT,
    \* Day 15, a Ranges alone: the stored list and the ranges added so far
    rangesRG, addedRG,
    \* Day 20: the linked list, and the list before the last shift with its arguments
    list20, before20, node20, offset20, pc20,
    \* Day 14: the cells of the cave, the lines added so far, the position
    cells14, count14, pc14,
    \* Shape: the spawned shape, the shape before the last shift, the shifts so far, the position
    indexSH, shapeSH, beforeSH, dirsSH, pcSH

vars24 == <<input24, entry24, board24, legs24, queue24, seen24, time24, returns24, pc24>>

vars16 == <<valves16, budget16, entry16, graph16, stack16, best_score16, memo16, scored16, pc16>>

vars12 == <<input12, entry12, grid12, queue12, seen12, yielded12, best12, result12, pc12>>

vars15 == <<input15, entry15, param15, areas15, ranges15, rows15, i15, result15, pc15>>

vars17 == <<input17, count17, board17, dirs17, shapes17, iteration17, cache17, loop17, left17, looped17, result17, pc17>>

vars13 == <<input13, packets13, i13, factors13, result13, pc13>>

vars21 == <<input21, monkeys21, order21, expr21, result21, pc21>>

vars23 == <<input23, entry23, positions23, directions23, will_propose23, proposals23, destination_counts23, good_proposals23, i23, moved23, result23, pc23>>

vars19 == <<blueprint19, minutes19, result19, robots19, resources19, budget19, pc19>>

vars18 == <<build18, origin18, cubes18, total_surface_area18, bbox18, result18, pc18>>

vars25 == <<build25, base_10_25, base_5_25, result25, pc25>>

varsWT == <<trackerWT, rightwardWT, leftwardWT, timeWT, posWT, clearWT, pcWT>>

varsRG == <<rangesRG, addedRG>>

vars20 == <<list20, before20, node20, offset20, pc20>>

vars14 == <<cells14, count14, pc14>>

varsSH == <<indexSH, shapeSH, beforeSH, dirsSH, pcSH>>

vars == <<vars24, vars16, vars12, vars15, vars17, vars13, vars21, vars23, vars19, vars18, vars25, varsWT, varsRG, vars20, vars14, varsSH>>

\* The idle value of a solver's variables, under the specifications of the
\* other solvers.
Idle24 ==
    /\ input24 = <<>> /\ entry24 = "" /\ board24 = <<>> /\ legs24 = <<>>
    /\ queue24 = <<>> /\ seen24 = {} /\ time24 = 0 /\ returns24 = <<>> /\ pc24 = "idle"

Idle16 ==
    /\ valves16 = <<>> /\ budget16 = 0 /\ entry16 = "" /\ graph16 = <<>>
    /\ stack16 = <<>> /\ best_score16 = 0 /\ memo16 = <<>> /\ scored16 = <<>>
    /\ pc16 = "idle"

Idle12 ==
    /\ input12 = <<>> /\ entry12 = "" /\ grid12 = <<>> /\ queue12 = <<>>
    /\ seen12 = {} /\ yielded12 = <<>> /\ best12 = <<>> /\ result12 = 0 /\ pc12 = "idle"

Idle15 ==
    /\ input15 = <<>> /\ entry15 = "" /\ param15 = 0 /\ areas15 = <<>>
    /\ ranges15 = <<>> /\ rows15 = <<>> /\ i15 = 0 /\ result15 = 0 /\ pc15 = "idle"

Idle17 ==
    /\ input17 = <<>> /\ count17 = 0 /\ board17 = <<>> /\ dirs17 = 0 /\ shapes17 = 0
    /\ iteration17 = 0 /\ cache17 = {} /\ loop17 = <<>> /\ left17 = 0
    /\ looped17 = <<>> /\ result17 = <<>> /\ pc17 = "idle"

Idle13 ==
    /\ input13 = <<>> /\ packets13 = <<>> /\ i13 = 0 /\ factors13 = <<>>
    /\ result13 = 0 /\ pc13 = "idle"

Idle21 ==
    /\ input21 = <<>> /\ monkeys21 = <<>> /\ order21 = <<>> /\ expr21 = <<>>
    /\ result21 = 0 /\ pc21 = "idle"

Idle23 ==
    /\ input23 = <<>> /\ entry23 = "" /\ positions23 = {} /\ directions23 = <<>>
    /\ will_propose23 = {} /\ proposals23 = <<>> /\ destination_counts23 = <<>>
    /\ good_proposals23 = <<>> /\ i23 = 0 /\ moved23 = FALSE /\ result23 = 0 /\ pc23 = "idle"

Idle19 ==
    blueprint19 = <<>> /\ minutes19 = 0 /\ result19 = 0 /\ robots19 = <<>> /\ resources19 = <<>> /\ budget19 = 0 /\ pc19 = "idle"

Idle18 ==
    build18 = "" /\ origin18 = 0 /\ cubes18 = {} /\ total_surface_area18 = 0 /\ bbox18 = <<>> /\ result18 = 0 /\ pc18 = "idle"

Idle25 ==
    build25 = "" /\ base_10_25 = <<>> /\ base_5_25 = <<>> /\ result25 = <<>> /\ pc25 = "idle"

IdleWT ==
    trackerWT = <<>> /\ rightwardWT = {} /\ leftwardWT = {} /\ timeWT = 0 /\ posWT = 0 /\ clearWT = FALSE /\ pcWT = "idle"

IdleRG ==
    rangesRG = <<>> /\ addedRG = {}

Idle20 ==
    list20 = <<>> /\ before20 = <<>> /\ node20 = 0 /\ offset20 = 0 /\ pc20 = "idle"

Idle14 ==
    cells14 = <<>> /\ count14 = 0 /\ pc14 = "idle"

IdleSH ==
    indexSH = 0 /\ shapeSH = <<>> /\ beforeSH = <<>> /\ dirsSH = <<>> /\ pcSH = "idle"

OthersSH == <<vars24, vars16, vars12, vars15, vars17, vars13, vars21, vars23, vars19, vars18, vars25, varsWT, varsRG, vars20, vars14>>

Others14 == <<vars24, vars16, vars12, vars15, vars17, vars13, vars21, vars23, vars19, vars18, vars25, varsWT, varsRG, vars20, varsSH>>

Others20 == <<vars24, vars16, vars12, vars15, vars17, vars13, vars21, vars23, vars19, vars18, vars25, varsWT, varsRG, vars14, varsSH>>

OthersRG == <<vars24, vars16, vars12, vars15, vars17, vars13, vars21, vars23, vars19, vars18, vars25, varsWT, vars20, vars14, varsSH>>

OthersWT == <<vars24, vars16, vars12, vars15, vars17, vars13, vars21, vars23, vars19, vars18, vars25, varsRG, vars20, vars14, varsSH>>

Others25 == <<vars24, vars16, vars12, vars15, vars17, vars13, vars21, vars23, vars19, vars18, varsWT, varsRG, vars20, vars14, varsSH>>

Others18 == <<vars24, vars16, vars12, vars15, vars17, vars13, vars21, vars23, vars19, vars25, varsWT, varsRG, vars20, vars14, varsSH>>

Others19 == <<vars24, vars16, vars12, vars15, vars17, vars13, vars21, vars23, vars18, vars25, varsWT, varsRG, vars20, vars14, varsSH>>

Others23 == <<vars24, vars16, vars12, vars15, vars17, vars13, vars21, vars19, vars18, vars25, varsWT, varsRG, vars20, vars14, varsSH>>

Others21 == <<vars24, vars16, vars12, vars15, vars17, vars13, vars23, vars19, vars18, vars25, varsWT, varsRG, vars20, vars14, varsSH>>

Others24 == <<vars16, vars12, vars15, vars17, vars13, vars21, vars23, vars19, vars18, vars25, varsWT, varsRG, vars20, vars14, varsSH>>

Others16 == <<vars24, vars12, vars15, vars17, vars13, vars21, vars23, vars19, vars18, vars25, varsWT, varsRG, vars20, vars14, varsSH>>

Others12 == <<vars24, vars16, vars15, vars17, vars13, vars21, vars23, vars19, vars18, vars25, varsWT, varsRG, vars20, vars14, varsSH>>

Others15 == <<vars24, vars16, vars12, vars17, vars13, vars21, vars23, vars19, vars18, vars25, varsWT, varsRG, vars20, vars14, varsSH>>

Others17 == <<vars24, vars16, vars12, vars15, vars13, vars21, vars23, vars19, vars18, vars25, varsWT, varsRG, vars20, vars14, varsSH>>

Others13 == <<vars24, vars16, vars12, vars15, vars17, vars21, vars23, vars19, vars18, vars25, varsWT, varsRG, vars20, vars14, varsSH>>

(***************************************************************************)
(* Integer helpers shared by the solvers: the bit operations of Rust's    *)
(* unsigned integers on naturals.                                          *)
(***************************************************************************)
RECURSIVE Pow2(_)
Pow2(n) == IF n = 0 THEN 1 ELSE 2 * Pow2(n - 1)

RECURSIVE BitAnd(_, _)
BitAnd(a, b) ==
    IF a = 0 \/ b = 0 THEN 0
    ELSE ((a % 2) * (b % 2)) + 2 * BitAnd(a \div 2, b \div 2)

RECURSIVE BitOr(_, _)
BitOr(a, b) ==
    IF a = 0 THEN b
    ELSE IF b = 0 THEN a
    ELSE (IF a % 2 = 1 \/ b % 2 = 1 THEN 1 ELSE 0) + 2 * BitOr(a \div 2, b \div 2)

Shl(a, k) == a * Pow2(k)

Shr(a, k) == a \div Pow2(k)

Abs(i) == IF i < 0 THEN -i ELSE i

Min(S) == CHOOSE m \in S : \A o \in S : m <= o

Max(S) == CHOOSE m \in S : \A o \in S : m >= o

(***************************************************************************)
(* Day 16: the valves.                                                     *)
(***************************************************************************)
MaxValves16 == 3
MaxRate16 == 2
MaxBudget16 == 6

ValveNames16 == <<"AA", "BB", "CC", "DD", "EE">>

\* u32: allowed & (1 << node) != 0
BitSet(a, k) == (a \div Pow2(k)) % 2 = 1

\* u32: allowed & !(1 << node)
BitClear(a, k) == IF BitSet(a, k) THEN a - Pow2(k) ELSE a

\* The scans of the model: the valves are the first n names, listed with AA
\* first or with AA last; every valve has a rate in 0..MaxRate16 and at least
\* one tunnel, and the tunnels lead both ways.
Scans16 ==
    UNION { LET names == { ValveNames16[i] : i \in 1..n }
                order == { [i \in 1..n |-> ValveNames16[i]],
                           [i \in 1..n |-> ValveNames16[IF i = n THEN 1 ELSE i + 1]] }
                pairs == { pr \in SUBSET names : Cardinality(pr) = 2 }
                tunnels == { t \in SUBSET pairs : \A v \in names : \E pr \in t : v \in pr }
            IN { [i \in 1..n |->
                    [name |-> o[i],
                     rate |-> r[o[i]],
                     connections |-> SelectSeq(o, LAMBDA w : {o[i], w} \in t)]]
                 : o \in order, r \in [names -> 0..MaxRate16], t \in tunnels }
            : n \in 2..MaxValves16 }

ValveNamed(valves, name) == CHOOSE v \in { valves[i] : i \in DOMAIN valves } : v.name = name

\* Graph::new, lines 25-34: the valves that become nodes, in input order; the
\* id of a node is its index in this sequence less one.
NodeValves(valves) == SelectSeq(valves, LAMBDA v : v.rate > 0 \/ v.name = "AA")

HasId(valves, name) == \E i \in DOMAIN NodeValves(valves) : NodeValves(valves)[i].name = name

\* Graph::new, name_id_map
NameId(valves, name) ==
    (CHOOSE i \in DOMAIN NodeValves(valves) : NodeValves(valves)[i].name = name) - 1

RECURSIVE BfsEdges(_, _, _, _, _)
\* Graph::new, lines 36-54: the breadth-first walk from one root
BfsEdges(valves, root_id, queue, seen, edges) ==
    IF queue = <<>> THEN edges
    ELSE LET distance == Head(queue)[1]
             name == Head(queue)[2]
             rest == Tail(queue)
         IN IF name \in seen THEN BfsEdges(valves, root_id, rest, seen, edges)
            ELSE LET conns == ValveNamed(valves, name).connections
                     pushed == rest \o [i \in 1..Len(conns) |-> <<distance + 1, conns[i]>>]
                     found == IF HasId(valves, name) /\ NameId(valves, name) # root_id
                              THEN Append(edges, [cost |-> distance + 1,
                                                  to_node |-> NameId(valves, name)])
                              ELSE edges
                 IN BfsEdges(valves, root_id, pushed, seen \cup {name}, found)

\* Graph::new
Graph_new(valves) ==
    LET nv == NodeValves(valves)
    IN [nodes |-> [i \in 1..Len(nv) |->
                     [rate |-> nv[i].rate,
                      edges |-> BfsEdges(valves, i - 1, <<<<0, nv[i].name>>>>, {}, <<>>)]],
        initial_node |-> NameId(valves, "AA")]

RECURSIVE dp_solve(_, _, _)
RECURSIVE dp_edges(_, _, _, _, _, _)
\* Graph::solve, fn dp_solve, lines 92-99: the loop over the edges
dp_edges(graph, state, edges, i, best_score, memo) ==
    IF i > Len(edges) THEN [result |-> best_score, memo |-> memo]
    ELSE LET child == [state EXCEPT !.current_node = edges[i].to_node,
                                    !.remaining_budget = state.remaining_budget - edges[i].cost]
             r == dp_solve(graph, child, memo)
         IN dp_edges(graph, state, edges, i + 1,
                     IF r.result > best_score THEN r.result ELSE best_score, r.memo)

\* Graph::solve, fn dp_solve.  The memo is read under the key of the state
\* on entry and written under the key of the state with the current node
\* removed from allowed_nodes, as the code does.
dp_solve(graph, state, memo) ==
    IF state.remaining_budget <= 1 THEN [result |-> state.current_score, memo |-> memo]
    ELSE IF ~BitSet(state.allowed_nodes, state.current_node)
    THEN [result |-> state.current_score, memo |-> memo]
    ELSE IF <<state.allowed_nodes, state.current_node, state.remaining_budget>> \in DOMAIN memo
    THEN [result |-> memo[<<state.allowed_nodes, state.current_node, state.remaining_budget>>],
          memo |-> memo]
    ELSE LET rate == graph.nodes[state.current_node + 1].rate
             st == [state EXCEPT
                      !.allowed_nodes = BitClear(state.allowed_nodes, state.current_node),
                      !.current_score = state.current_score + state.remaining_budget * rate]
             r == dp_edges(graph, st, graph.nodes[state.current_node + 1].edges, 1,
                           st.current_score, memo)
             key == <<st.allowed_nodes, st.current_node, st.remaining_budget>>
         IN [result |-> r.result,
             memo |-> [k \in DOMAIN r.memo \cup {key} |->
                         IF k = key THEN r.result ELSE r.memo[k]]]

RECURSIVE recurse(_, _, _, _)
RECURSIVE recurse_edges(_, _, _, _, _, _, _)
\* Solver::recurse, lines 208-215: the loop over the edges.  opened is the set
\* of nodes whose flow is part of best_score.
recurse_edges(graph, state, score, edges, i, best, memo) ==
    IF i > Len(edges) THEN [result |-> best.result, opened |-> best.opened, memo |-> memo]
    ELSE LET child == [state EXCEPT !.node = edges[i].to_node,
                                    !.budget = state.budget - edges[i].cost]
             r == recurse(graph, child, score, memo)
         IN recurse_edges(graph, state, score, edges, i + 1,
                          IF r.result > best.result
                          THEN [result |-> r.result, opened |-> best.own \cup r.opened,
                                own |-> best.own]
                          ELSE best,
                          r.memo)

\* Solver::recurse.  Beside the score it returns the nodes whose flow the
\* score counts; an entry of the memo holds no such set (known |-> FALSE).
recurse(graph, state, score, memo) ==
    IF state.budget <= 1 THEN [result |-> score, opened |-> {}, memo |-> memo]
    ELSE IF ~BitSet(state.allowed, state.node)
    THEN [result |-> score, opened |-> {}, memo |-> memo]
    ELSE IF <<state.node, state.allowed, state.budget>> \in DOMAIN memo
    THEN [result |-> memo[<<state.node, state.allowed, state.budget>>],
          opened |-> {0 - 1}, memo |-> memo]
    ELSE LET rate == graph.nodes[state.node + 1].rate
             st == [state EXCEPT !.allowed = BitClear(state.allowed, state.node)]
             sc == score + state.budget * rate
             r == recurse_edges(graph, st, sc, graph.nodes[state.node + 1].edges, 1,
                                [result |-> sc, opened |-> {state.node}, own |-> {state.node}],
                                memo)
             key == <<st.node, st.allowed, st.budget>>
         IN [result |-> r.result,
             opened |-> r.opened,
             memo |-> [k \in DOMAIN r.memo \cup {key} |->
                         IF k = key THEN r.result ELSE r.memo[k]]]

EmptyMemo == [k \in {} |-> 0]

Init16 ==
    /\ valves16 \in Scans16
    /\ budget16 \in 1..MaxBudget16
    /\ entry16 \in {"solve", "solve_2"}
    /\ graph16 = Graph_new(valves16)
    /\ stack16 = IF entry16 = "solve"
                 THEN <<[node |-> 0, allowed_nodes |-> <<Shl(1, graph16.initial_node)>>]>>
                 ELSE <<[node |-> 0, allowed_nodes |-> <<0, 0>>]>>
    /\ best_score16 = 0
    /\ memo16 = EmptyMemo
    /\ scored16 = <<>>
    /\ pc16 = "loop"

Top16 == stack16[Len(stack16)]

\* Graph::solve and Solver::solve, one turn of the loop over the stack: the
\* popped entry assigns no node yet to all of them, and one entry per actor
\* is pushed.
Branch16 ==
    /\ pc16 = "loop"
    /\ stack16 # <<>>
    /\ Top16.node # Len(graph16.nodes)
    /\ LET actors == Len(Top16.allowed_nodes)
           pushed == [a \in 1..actors |->
                        [node |-> Top16.node + 1,
                         allowed_nodes |-> [Top16.allowed_nodes EXCEPT
                                              ![a] = BitOr(@, Shl(1, Top16.node))]]]
       IN stack16' = SubSeq(stack16, 1, Len(stack16) - 1) \o pushed
    /\ UNCHANGED <<valves16, budget16, entry16, graph16, best_score16, memo16, scored16, pc16>>
    /\ UNCHANGED Others16

\* Graph::solve::<1>, lines 118-128: every node is assigned, the actor is scored
LeafGraph16 ==
    /\ pc16 = "loop"
    /\ entry16 = "solve"
    /\ stack16 # <<>>
    /\ Top16.node = Len(graph16.nodes)
    /\ LET r == dp_solve(graph16,
                         [current_score |-> 0, current_node |-> graph16.initial_node,
                          remaining_budget |-> budget16,
                          allowed_nodes |-> Top16.allowed_nodes[1]],
                         memo16)
       IN /\ memo16' = r.memo
          /\ best_score16' = IF r.result > best_score16 THEN r.result ELSE best_score16
          /\ scored16' = Append(scored16, [allowed |-> Top16.allowed_nodes,
                                            scores |-> <<r.result>>,
                                            opened |-> <<{}>>])
    /\ stack16' = SubSeq(stack16, 1, Len(stack16) - 1)
    /\ UNCHANGED <<valves16, budget16, entry16, graph16, pc16>>
    /\ UNCHANGED Others16

\* Solver::solve(2, budget), lines 172-182: every node is assigned, both
\* actors are scored
LeafSolver16 ==
    /\ pc16 = "loop"
    /\ entry16 = "solve_2"
    /\ stack16 # <<>>
    /\ Top16.node = Len(graph16.nodes)
    /\ LET initial_allowed == Shl(1, graph16.initial_node)
           st(a) == [node |-> graph16.initial_node,
                     allowed |-> BitOr(initial_allowed, Top16.allowed_nodes[a]),
                     budget |-> budget16]
           r1 == recurse(graph16, st(1), 0, memo16)
           r2 == recurse(graph16, st(2), 0, r1.memo)
           score == r1.result + r2.result
       IN /\ memo16' = r2.memo
          /\ best_score16' = IF score > best_score16 THEN score ELSE best_score16
          /\ scored16' = Append(scored16, [allowed |-> <<st(1).allowed, st(2).allowed>>,
                                            scores |-> <<r1.result, r2.result>>,
                                            opened |-> <<r1.opened, r2.opened>>])
    /\ stack16' = SubSeq(stack16, 1, Len(stack16) - 1)
    /\ UNCHANGED <<valves16, budget16, entry16, graph16, pc16>>
    /\ UNCHANGED Others16

\* The stack is empty: best_score is returned
Return16 ==
    /\ pc16 = "loop"
    /\ stack16 = <<>>
    /\ pc16' = "done"
    /\ UNCHANGED <<valves16, budget16, entry16, graph16, stack16, best_score16, memo16, scored16>>
    /\ UNCHANGED Others16

Next16 ==
    \/ Branch16
    \/ LeafGraph16
    \/ LeafSolver16
    \/ Return16

Start16 == Init16 /\ Idle24 /\ Idle12 /\ Idle15 /\ Idle17 /\ Idle13 /\ Idle21 /\ Idle23 /\ Idle19 /\ Idle18 /\ Idle25 /\ IdleWT /\ IdleRG /\ Idle20 /\ Idle14 /\ IdleSH

Spec16 == Start16 /\ [][Next16]_vars


(***************************************************************************)
(* Day 16, the claims.  The reference works on the scan itself: the names, *)
(* rates and tunnels of the valves.                                        *)
(***************************************************************************)
Names16 == { valves16[i].name : i \in DOMAIN valves16 }

Rate16(name) == ValveNamed(valves16, name).rate

RECURSIVE Within16(_, _)
\* The valves at most k tunnels away from valve a.
Within16(a, k) ==
    IF k = 0 THEN {a}
    ELSE LET near == Within16(a, k - 1)
         IN near \cup UNION { { c \in Names16 :
                                   \E i \in DOMAIN ValveNamed(valves16, v).connections :
                                       ValveNamed(valves16, v).connections[i] = c }
                              : v \in near }

Reaches16(a, b) == b \in Within16(a, Len(valves16))

\* The number of tunnels of a shortest path from a to b.
Dist16(a, b) == Min({ k \in 0..Len(valves16) : b \in Within16(a, k) })

RECURSIVE BestRelease16(_, _, _)
\* The most pressure an actor standing at valve pos with `remaining` minutes
\* left can still release, the valves in opened being open: it walks to a
\* closed valve v and opens it, which completes with m minutes remaining and
\* releases m * rate for every m >= 1.
BestRelease16(pos, remaining, opened) ==
    LET left(v) == remaining - Dist16(pos, v) - 1
        choices == { v \in Names16 \ opened : Reaches16(pos, v) /\ left(v) >= 1 }
    IN Max({0} \cup { left(v) * Rate16(v) + BestRelease16(v, left(v), opened \cup {v})
                      : v \in choices })

MaxPressure16 == BestRelease16("AA", budget16, {})

\* C3: Graph::solve::<1>(budget) returns the maximum total pressure one actor
\* starting at AA can release within budget minutes, a valve whose opening
\* completes with m >= 1 minutes remaining contributing m * rate.  The claim
\* is stated on the scans whose valve AA has no flow, as in the puzzle (on the
\* others the code also counts the flow of AA without the minute of opening).
C3_GraphSolveIsMaximum ==
    (entry16 = "solve" /\ pc16 = "done" /\ Rate16("AA") = 0) =>
        best_score16 = MaxPressure16

\* C4: in every assignment that Solver::solve(2, budget) scores, no valve
\* contributes pressure to the totals of both actors.
C4_NoValveCountedTwice ==
    entry16 = "solve_2" =>
        \A i \in DOMAIN scored16 :
            \A n \in scored16[i].opened[1] \cap scored16[i].opened[2] :
                n >= 0 => graph16.nodes[n + 1].rate * budget16 = 0

\* Solver::recurse never finds a state in its memo: it looks a state up with
\* the bit of its node set in allowed and stores it with that bit cleared.
MemoNeverRead16 ==
    \A i \in DOMAIN scored16 : \A a \in DOMAIN scored16[i].opened :
        (0 - 1) \notin scored16[i].opened[a]

(***************************************************************************)
(* Day 12: the hill.                                                       *)
(***************************************************************************)
MaxEdits12 == 1

Alphabet == <<"a", "b", "c", "d", "e", "f", "g", "h", "i", "j", "k", "l", "m",
              "n", "o", "p", "q", "r", "s", "t", "u", "v", "w", "x", "y", "z">>

\* c as isize - 'a' as isize
Elevation(c) == (CHOOSE i \in DOMAIN Alphabet : Alphabet[i] = c) - 1

\* Stands for usize::MAX, the value of 0usize.wrapping_sub(1): above every
\* coordinate of a grid.
UsizeMax == Pow2(30)

wrapping_sub1(v) == IF v = 0 THEN UsizeMax ELSE v - 1

\* The small maps of the model: S, E and letters next to a and to z on the
\* grids of 3 or 4 cells.
SmallLetters12 == {"a", "b", "y", "z"}

SmallMaps12 ==
    UNION { LET cells == (1..wh[1]) \X (1..wh[2])
            IN { [y \in 1..wh[2] |-> [x \in 1..wh[1] |->
                    IF <<x, y>> = se[1] THEN "S"
                    ELSE IF <<x, y>> = se[2] THEN "E" ELSE f[<<x, y>>]]]
                 : se \in { p \in cells \X cells : p[1] # p[2] },
                   f \in [cells -> SmallLetters12] }
            : wh \in {<<3, 1>>, <<1, 3>>, <<2, 2>>} }

\* The ramps of the model: two rows S b c ... y E and a b c ... y z, one
\* below the other, with at most MaxEdits12 of the letters between the first
\* and the last column replaced by z (a wall) or a (a pit).
RampRow(first, last) ==
    [x \in 1..26 |-> IF x = 1 THEN first ELSE IF x = 26 THEN last ELSE Alphabet[x]]

RECURSIVE EditSets12(_)
EditSets12(k) ==
    IF k = 0 THEN {{}}
    ELSE LET fewer == EditSets12(k - 1)
         IN fewer \cup { e \cup {c} : e \in fewer, c \in (2..25) \X (1..2) }

RampMaps12 ==
    LET base == <<RampRow("S", "E"), RampRow("a", "z")>>
    IN UNION { { [y \in 1..2 |-> [x \in 1..26 |->
                    IF <<x, y>> \in edits THEN f[<<x, y>>] ELSE base[y][x]]]
                 : f \in [edits -> {"a", "z"}] }
               : edits \in EditSets12(MaxEdits12) }

RECURSIVE FindChar(_, _, _)
\* Grid::new: the last cell holding the character c, as (x, y) from 0
FindChar(input, c, k) ==
    LET width == Len(input[1])
        y == (k - 1) \div width
        x == (k - 1) % width
    IN IF input[y + 1][x + 1] = c THEN <<x, y>> ELSE FindChar(input, c, k - 1)

\* Grid::new
Grid_new(input) ==
    [cells |-> [y \in 1..Len(input) |-> [x \in 1..Len(input[y]) |->
                  IF input[y][x] = "S" THEN Elevation("a")
                  ELSE IF input[y][x] = "E" THEN Elevation("z")
                  ELSE Elevation(input[y][x])]],
     start |-> FindChar(input, "S", Len(input) * Len(input[1])),
     end |-> FindChar(input, "E", Len(input) * Len(input[1])),
     size |-> <<Len(input[1]), Len(input)>>]

\* BFS::next, lines 72-83: the neighbours of pos that are queued
Neighbours12(grid, pos, steps) ==
    LET around == << <<pos[1], pos[2] + 1>>,
                     <<pos[1], wrapping_sub1(pos[2])>>,
                     <<pos[1] + 1, pos[2]>>,
                     <<wrapping_sub1(pos[1]), pos[2]>> >>
        inside == SelectSeq(around, LAMBDA p : p[1] < grid.size[1] /\ p[2] < grid.size[2])
        climbs == SelectSeq(inside, LAMBDA p :
                     grid.cells[pos[2] + 1][pos[1] + 1] <= grid.cells[p[2] + 1][p[1] + 1] + 1)
    IN [i \in 1..Len(climbs) |-> <<climbs[i], steps + 1>>]

RECURSIVE BFS_next_depth_first(_, _, _)
\* BFS::next with the neighbours put at the front of the queue
BFS_next_depth_first(grid, queue, seen) ==
    IF queue = <<>> THEN [some |-> FALSE, queue |-> queue, seen |-> seen]
    ELSE LET pos == Head(queue)[1]
             steps == Head(queue)[2]
         IN IF pos \in seen THEN BFS_next_depth_first(grid, Tail(queue), seen)
            ELSE [some |-> TRUE,
                  item |-> <<pos, steps>>,
                  queue |-> Neighbours12(grid, pos, steps) \o Tail(queue),
                  seen |-> seen \cup {pos}]

RECURSIVE BFS_next(_, _, _)
\* BFS::next: the next item, or none when the queue runs empty
BFS_next(grid, queue, seen) ==
    IF queue = <<>> THEN [some |-> FALSE, queue |-> queue, seen |-> seen]
    ELSE LET pos == Head(queue)[1]
             steps == Head(queue)[2]
         IN IF pos \in seen THEN BFS_next(grid, Tail(queue), seen)
            ELSE [some |-> TRUE,
                  item |-> <<pos, steps>>,
                  queue |-> Tail(queue) \o Neighbours12(grid, pos, steps),
                  seen |-> seen \cup {pos}]

Init12 ==
    /\ input12 \in SmallMaps12 \cup RampMaps12
    /\ entry12 \in {"solve", "solve_2"}
    /\ grid12 = Grid_new(input12)
    /\ queue12 = <<<<grid12.end, 0>>>>
    /\ seen12 = {}
    /\ yielded12 = <<>>
    /\ best12 = <<>>
    /\ result12 = 0
    /\ pc12 = "iterate"

Item12 == BFS_next(grid12, queue12, seen12)

\* solve, find: BFS::next yields an item that is not the start
SolveSkip12 ==
    /\ pc12 = "iterate" /\ entry12 = "solve"
    /\ Item12.some /\ Item12.item[1] # grid12.start
    /\ queue12' = Item12.queue
    /\ seen12' = Item12.seen
    /\ yielded12' = Append(yielded12, Item12.item)
    /\ UNCHANGED <<input12, entry12, grid12, best12, result12, pc12>>
    /\ UNCHANGED Others12

\* solve, find: BFS::next yields the start, its steps are returned
SolveFound12 ==
    /\ pc12 = "iterate" /\ entry12 = "solve"
    /\ Item12.some /\ Item12.item[1] = grid12.start
    /\ queue12' = Item12.queue
    /\ seen12' = Item12.seen
    /\ yielded12' = Append(yielded12, Item12.item)
    /\ result12' = Item12.item[2]
    /\ pc12' = "done"
    /\ UNCHANGED <<input12, entry12, grid12, best12>>
    /\ UNCHANGED Others12

\* solve_2, filter and min_by_key: BFS::next yields an item; an item of
\* elevation 0 with fewer steps than the best so far becomes the best
Solve2Item12 ==
    /\ pc12 = "iterate" /\ entry12 = "solve_2"
    /\ Item12.some
    /\ queue12' = Item12.queue
    /\ seen12' = Item12.seen
    /\ yielded12' = Append(yielded12, Item12.item)
    /\ best12' = IF /\ grid12.cells[Item12.item[1][2] + 1][Item12.item[1][1] + 1] = 0
                    /\ (best12 = <<>> \/ Item12.item[2] < best12[1][2])
                 THEN <<Item12.item>> ELSE best12
    /\ UNCHANGED <<input12, entry12, grid12, result12, pc12>>
    /\ UNCHANGED Others12

\* BFS::next yields none: find or min_by_key end, and unwrap takes the result
\* or panics
Exhausted12 ==
    /\ pc12 = "iterate"
    /\ ~Item12.some
    /\ queue12' = Item12.queue
    /\ IF entry12 = "solve_2" /\ best12 # <<>>
       THEN result12' = best12[1][2] /\ pc12' = "done"
       ELSE result12' = result12 /\ pc12' = "panic"
    /\ UNCHANGED <<input12, entry12, grid12, seen12, yielded12, best12>>
    /\ UNCHANGED Others12

Next12 ==
    \/ SolveSkip12
    \/ SolveFound12
    \/ Solve2Item12
    \/ Exhausted12

Start12 == Init12 /\ Idle24 /\ Idle16 /\ Idle15 /\ Idle17 /\ Idle13 /\ Idle21 /\ Idle23 /\ Idle19 /\ Idle18 /\ Idle25 /\ IdleWT /\ IdleRG /\ Idle20 /\ Idle14 /\ IdleSH

Spec12 == Start12 /\ [][Next12]_vars

Cells12 == (0..(grid12.size[1] - 1)) \X (0..(grid12.size[2] - 1))

Height12(c) == grid12.cells[c[2] + 1][c[1] + 1]

\* One step of the walker: to a 4-neighbour at most one higher
Step12(c, n) ==
    /\ Abs(c[1] - n[1]) + Abs(c[2] - n[2]) = 1
    /\ Height12(n) <= Height12(c) + 1

NoPath == 0 - 1

RECURSIVE Walk12(_, _, _)
\* The number of steps after which a walker spreading from the cells of
\* front first stands on the end, NoPath when it never does
Walk12(front, visited, k) ==
    IF grid12.end \in front THEN k
    ELSE IF front = {} THEN NoPath
    ELSE LET further == { n \in Cells12 \ visited : \E c \in front : Step12(c, n) }
         IN Walk12(further, visited \cup further, k + 1)

FewestSteps12(c) == Walk12({c}, {c}, 0)

Exhausted12Done == pc12 = "panic" \/ (entry12 = "solve_2" /\ pc12 = "done")

\* C5: solve returns the fewest steps of a walk from S to E that never climbs
\* more than one per step; the search from E yields every cell that can reach
\* E exactly once, with its fewest steps, in non-decreasing order of steps.
C5_FewestSteps ==
    /\ (entry12 = "solve" /\ pc12 = "done") => result12 = FewestSteps12(grid12.start)
    /\ yielded12 # <<>> =>
          LET last == yielded12[Len(yielded12)]
          IN /\ last[2] = FewestSteps12(last[1])
             /\ \A i \in 1..(Len(yielded12) - 1) :
                   yielded12[i][1] # last[1] /\ yielded12[i][2] <= last[2]
    /\ Exhausted12Done =>
          { yielded12[i][1] : i \in DOMAIN yielded12 }
              = { c \in Cells12 : FewestSteps12(c) # NoPath }

\* solve has returned on a map where a wall forces the walk off the first
\* row, so that it is longer than the climb from a to z
C5_Witness ==
    /\ entry12 = "solve" /\ pc12 = "done"
    /\ result12 > 25
    /\ Len(yielded12) > 26

\* The search has run dry after yielding some cells and leaving others out
C5_WitnessExhausted ==
    /\ Exhausted12Done
    /\ Len(yielded12) > 2
    /\ Len(yielded12) < Cardinality(Cells12)

(***************************************************************************)
(* Day 15: the sensors.                                                    *)
(***************************************************************************)
MaxCoord15 == 2

MaxSensors15 == 2

MaxParam15 == 2

Digits == <<"0", "1", "2", "3", "4", "5", "6", "7", "8", "9">>

RECURSIVE Numeral(_)
\* The text of a number as the puzzle input writes it
Numeral(n) ==
    IF n < 0 THEN <<"-">> \o Numeral(0 - n)
    ELSE IF n < 10 THEN <<Digits[n + 1]>>
    ELSE Append(Numeral(n \div 10), Digits[(n % 10) + 1])

RECURSIVE parse_digits(_, _)
parse_digits(text, acc) ==
    IF text = <<>> THEN acc
    ELSE parse_digits(Tail(text),
                      acc * 10 + (CHOOSE d \in 0..9 : Digits[d + 1] = Head(text)))

\* str::parse::<isize> on a capture of (-?\d+)
parse_isize(text) ==
    IF Head(text) = "-" THEN 0 - parse_digits(Tail(text), 0) ELSE parse_digits(text, 0)

\* The four captures of a line: sensor x, sensor y, beacon x, beacon y, the
\* beacon away from the sensor
Lines15 ==
    LET numerals == { Numeral(n) : n \in 0..MaxCoord15 }
    IN { l \in numerals \X numerals \X numerals \X numerals :
            <<l[1], l[2]>> # <<l[3], l[4]>> }

Inputs15 == UNION { [1..n -> Lines15] : n \in 1..MaxSensors15 }

\* parse
parse15(input) ==
    [k \in DOMAIN input |->
        LET sensor == <<parse_isize(input[k][1]), parse_isize(input[k][2])>>
            beacon == <<parse_isize(input[k][3]), parse_isize(input[k][4])>>
        IN [center |-> sensor,
            radius |-> Abs(sensor[1] - beacon[1]) + Abs(sensor[2] - beacon[2])]]

\* isize::min, isize::max
isize_min(a, b) == IF a <= b THEN a ELSE b

isize_max(a, b) == IF a >= b THEN a ELSE b

RemoveAt(seq, i) == SubSeq(seq, 1, i - 1) \o SubSeq(seq, i + 1, Len(seq))

InsertAt(seq, i, e) == SubSeq(seq, 1, i - 1) \o <<e>> \o SubSeq(seq, i, Len(seq))

\* Ranges_add_from with the ranges that overlap the new one left in the list
RECURSIVE Ranges_add_unmerged(_, _, _)
Ranges_add_unmerged(ranges, range, i) ==
    IF i > Len(ranges) THEN InsertAt(ranges, i, range)
    ELSE IF range[2] < ranges[i][1] THEN InsertAt(ranges, i, range)
         ELSE Ranges_add_unmerged(ranges, range, i + 1)

RECURSIVE Ranges_add_from(_, _, _)
\* Ranges::add, the while loop with i counted from 1
Ranges_add_from(ranges, range, i) ==
    IF i > Len(ranges) THEN InsertAt(ranges, i, range)
    ELSE LET other_range == ranges[i]
         IN IF range[2] < other_range[1] THEN InsertAt(ranges, i, range)
            ELSE IF range[1] <= other_range[2]
                 THEN Ranges_add_from(RemoveAt(ranges, i),
                                      <<isize_min(range[1], other_range[1]),
                                        isize_max(range[2], other_range[2])>>, i)
                 ELSE Ranges_add_from(ranges, range, i + 1)

\* Ranges::add
Ranges_add(ranges, range) == Ranges_add_from(ranges, range, 1)

RECURSIVE Ranges_count(_)
\* Ranges::count
Ranges_count(ranges) ==
    IF ranges = <<>> THEN 0
    ELSE (Head(ranges)[2] - Head(ranges)[1]) + Ranges_count(Tail(ranges))

RECURSIVE EmptiesIter_next(_, _, _)
\* EmptiesIter::next
EmptiesIter_next(ranges, current, end) ==
    IF ~(current < end) THEN [some |-> FALSE]
    ELSE IF ranges # <<>> /\ ~(current < Head(ranges)[1])
         THEN IF current < Head(ranges)[2]
              THEN EmptiesIter_next(ranges, Head(ranges)[2], end)
              ELSE EmptiesIter_next(Tail(ranges), current, end)
         ELSE [some |-> TRUE, value |-> current]

RECURSIVE AddRows15(_, _, _, _)
\* compute_2, lines 126-130: the rows y..y_max-1 of one area
AddRows15(rows, area, y, y_max) ==
    IF ~(y < y_max) THEN rows
    ELSE LET y_dist == Abs(area.center[2] - y)
             x_dist == area.radius - y_dist
         IN AddRows15([rows EXCEPT ![y + 1] =
                          Ranges_add(@, <<area.center[1] - x_dist,
                                          area.center[1] + x_dist + 1>>)],
                      area, y + 1, y_max)

Init15 ==
    /\ input15 \in Inputs15
    /\ entry15 \in {"compute", "compute_2"}
    /\ param15 \in (IF entry15 = "compute" THEN 0..MaxParam15 ELSE 1..MaxParam15)
    /\ areas15 = parse15(input15)
    /\ ranges15 = <<>>
    /\ rows15 = IF entry15 = "compute_2" THEN [y \in 1..param15 |-> <<>>] ELSE <<>>
    /\ i15 = 1
    /\ result15 = 0
    /\ pc15 = IF entry15 = "compute" THEN "fold" ELSE "areas"

\* compute, filter_map and fold: one area
Fold15 ==
    /\ pc15 = "fold" /\ i15 <= Len(areas15)
    /\ LET area == areas15[i15]
           y_dist == Abs(area.center[2] - param15)
           x_dist == area.radius - y_dist
       IN ranges15' = IF y_dist < area.radius
                      THEN Ranges_add(ranges15, <<area.center[1] - x_dist,
                                                  area.center[1] + x_dist>>)
                      ELSE ranges15
    /\ i15' = i15 + 1
    /\ UNCHANGED <<input15, entry15, param15, areas15, rows15, result15, pc15>>
    /\ UNCHANGED Others15

\* compute, count
Count15 ==
    /\ pc15 = "fold" /\ i15 > Len(areas15)
    /\ result15' = Ranges_count(ranges15)
    /\ pc15' = "done"
    /\ UNCHANGED <<input15, entry15, param15, areas15, ranges15, rows15, i15>>
    /\ UNCHANGED Others15

\* compute_2, lines 123-131: one area
Area15 ==
    /\ pc15 = "areas" /\ i15 <= Len(areas15)
    /\ LET area == areas15[i15]
           y_min == isize_max(area.center[2] - area.radius, 0)
           y_max == isize_min(area.center[2] + area.radius, param15)
       IN rows15' = AddRows15(rows15, area, y_min, y_max)
    /\ i15' = i15 + 1
    /\ UNCHANGED <<input15, entry15, param15, areas15, ranges15, result15, pc15>>
    /\ UNCHANGED Others15

\* compute_2: all areas are in, the scan of the rows starts
Scan15 ==
    /\ pc15 = "areas" /\ i15 > Len(areas15)
    /\ i15' = 0
    /\ pc15' = "rows"
    /\ UNCHANGED <<input15, entry15, param15, areas15, ranges15, rows15, result15>>
    /\ UNCHANGED Others15

\* compute_2, lines 132-136: row i15 has no empty position
RowFull15 ==
    /\ pc15 = "rows" /\ i15 < Len(rows15)
    /\ ~EmptiesIter_next(rows15[i15 + 1], 0, param15).some
    /\ i15' = i15 + 1
    /\ UNCHANGED <<input15, entry15, param15, areas15, ranges15, rows15, result15, pc15>>
    /\ UNCHANGED Others15

\* compute_2, lines 133-134: row i15 has an empty position
RowEmpty15 ==
    /\ pc15 = "rows" /\ i15 < Len(rows15)
    /\ LET first == EmptiesIter_next(rows15[i15 + 1], 0, param15)
       IN first.some /\ result15' = first.value * 4000000 + i15
    /\ pc15' = "done"
    /\ UNCHANGED <<input15, entry15, param15, areas15, ranges15, rows15, i15>>
    /\ UNCHANGED Others15

\* compute_2, line 137
Panic15 ==
    /\ pc15 = "rows" /\ i15 >= Len(rows15)
    /\ pc15' = "panic"
    /\ UNCHANGED <<input15, entry15, param15, areas15, ranges15, rows15, i15, result15>>
    /\ UNCHANGED Others15

Next15 ==
    \/ Fold15
    \/ Count15
    \/ Area15
    \/ Scan15
    \/ RowFull15
    \/ RowEmpty15
    \/ Panic15

Start15 == Init15 /\ Idle24 /\ Idle16 /\ Idle12 /\ Idle17 /\ Idle13 /\ Idle21 /\ Idle23 /\ Idle19 /\ Idle18 /\ Idle25 /\ IdleWT /\ IdleRG /\ Idle20 /\ Idle14 /\ IdleSH

Spec15 == Start15 /\ [][Next15]_vars

Sensors15 == { areas15[k] : k \in DOMAIN areas15 }

Beacons15 ==
    { <<parse_isize(input15[k][3]), parse_isize(input15[k][4])>> : k \in DOMAIN input15 }

Covered15(x, y) ==
    \E a \in Sensors15 : Abs(a.center[1] - x) + Abs(a.center[2] - y) <= a.radius

\* C6: compute::<N> returns the number of positions of row N that are within
\* the radius of a sensor and are not the position of a reported beacon.
C6_ComputeCountsCovered ==
    (entry15 = "compute" /\ pc15 = "done") =>
        result15 = Cardinality({ x \in (0 - 2 * MaxCoord15)..(3 * MaxCoord15) :
                                    Covered15(x, param15) /\ <<x, param15>> \notin Beacons15 })

\* C7: compute_2::<MAX> returns x * 4000000 + y for a position of
\* 0..MAX x 0..MAX that is farther from every sensor than its radius.
C7_Compute2Uncovered ==
    (entry15 = "compute_2" /\ pc15 = "done") =>
        \E x \in 0..param15, y \in 0..param15 :
            result15 = x * 4000000 + y /\ ~Covered15(x, y)

(***************************************************************************)
(* Day 17: the falling rocks.                                              *)
(***************************************************************************)
WIDTH == 7

STARTING_COL == 2

JetsLen17 == 9

MaxIter17 == 13

MaxCount17 == 8

\* u8 <<
Shl8(a, k) == (a * Pow2(k)) % 256

RECURSIVE leading_zeros8(_)
leading_zeros8(r) == IF r = 0 THEN 8 ELSE leading_zeros8(r \div 2) - 1

RECURSIVE trailing_zeros8(_)
trailing_zeros8(r) ==
    IF r = 0 THEN 8 ELSE IF r % 2 = 1 THEN 0 ELSE 1 + trailing_zeros8(r \div 2)

RECURSIVE count_ones(_)
count_ones(r) == IF r = 0 THEN 0 ELSE (r % 2) + count_ones(r \div 2)

RECURSIVE FoldCells(_, _)
\* row.iter().fold(0, |accum, cell| (accum << 1) | cell)
FoldCells(row, accum) ==
    IF row = <<>> THEN accum ELSE FoldCells(Tail(row), BitOr(Shl8(accum, 1), Head(row)))

\* Shape::shift_impl without the test of the two walls
shift_impl_unchecked(shape, amount) ==
    [rows |-> [i \in DOMAIN shape.rows |->
                      IF amount < 0 THEN Shl8(shape.rows[i], 0 - amount)
                      ELSE Shr(shape.rows[i], amount)],
     first_col |-> shape.first_col + amount,
     last_col |-> shape.last_col + amount]

\* Shape::shift_impl
shift_impl(shape, amount) ==
    IF shape.first_col + amount < 0 \/ shape.last_col + amount >= WIDTH THEN shape
    ELSE [rows |-> [i \in DOMAIN shape.rows |->
                      IF amount < 0 THEN Shl8(shape.rows[i], 0 - amount)
                      ELSE Shr(shape.rows[i], amount)],
          first_col |-> shape.first_col + amount,
          last_col |-> shape.last_col + amount]

\* Shape::new
Shape_new(cells) ==
    LET rows == [i \in DOMAIN cells |-> FoldCells(cells[Len(cells) + 1 - i], 0)]
        first_col == Min({ leading_zeros8(rows[i]) : i \in DOMAIN rows })
        last_col == 7 - Min({ trailing_zeros8(rows[i]) : i \in DOMAIN rows })
    IN shift_impl([rows |-> rows, first_col |-> first_col, last_col |-> last_col],
                  STARTING_COL - first_col)

\* Shape::shift
shift(shape, dir) == IF dir = "Left" THEN shift_impl(shape, 0 - 1) ELSE shift_impl(shape, 1)

\* Shape::spawn
spawn ==
    << Shape_new(<< <<1, 1, 1, 1>> >>),
       Shape_new(<< <<0, 1, 0>>, <<1, 1, 1>>, <<0, 1, 0>> >>),
       Shape_new(<< <<0, 0, 1>>, <<0, 0, 1>>, <<1, 1, 1>> >>),
       Shape_new(<< <<1>>, <<1>>, <<1>>, <<1>> >>),
       Shape_new(<< <<1, 1>>, <<1, 1>> >>) >>

\* parse: the direction of one character
Dir(c) == IF c = "<" THEN "Left" ELSE "Right"

\* Board::impassable_ceiling
impassable_ceiling(rows) ==
    IF Len(rows) < 4 THEN [some |-> FALSE]
    ELSE LET ceiling == SubSeq(rows, Len(rows) - 3, Len(rows))
             or == BitOr(BitOr(ceiling[1], ceiling[2]), BitOr(ceiling[3], ceiling[4]))
         IN IF count_ones(or) # WIDTH THEN [some |-> FALSE]
            ELSE [some |-> TRUE, ceiling |-> ceiling]

\* Board::intersects
intersects(rows, shape, shape_bottom) ==
    IF shape_bottom < 0 THEN TRUE
    ELSE IF shape_bottom >= Len(rows) THEN FALSE
    ELSE \E i \in DOMAIN shape.rows :
            /\ shape_bottom + i <= Len(rows)
            /\ BitAnd(shape.rows[i], rows[shape_bottom + i]) # 0

RECURSIVE PopEmpty(_)
\* Board::fix_shape, lines 63-68
PopEmpty(rows) ==
    IF rows # <<>> /\ count_ones(rows[Len(rows)]) = 0
    THEN PopEmpty(SubSeq(rows, 1, Len(rows) - 1)) ELSE rows

\* Board::fix_shape
fix_shape(rows, shape, shape_bottom) ==
    IF intersects(rows, shape, shape_bottom) \/ shape_bottom > Len(rows)
    THEN [panic |-> TRUE, rows |-> rows]
    ELSE LET merged == [h \in DOMAIN rows |->
                          IF h > shape_bottom /\ h - shape_bottom <= Len(shape.rows)
                          THEN BitOr(rows[h], shape.rows[h - shape_bottom])
                          ELSE rows[h]]
         IN IF shape_bottom + Len(shape.rows) <= Len(rows)
            THEN [panic |-> FALSE, rows |-> merged]
            ELSE [panic |-> FALSE,
                  rows |-> PopEmpty(merged \o SubSeq(shape.rows,
                                                     Len(rows) - shape_bottom + 1,
                                                     Len(shape.rows)))]

RECURSIVE FallLoop(_, _, _, _, _)
\* Board::play_single_iteration, lines 78-90
FallLoop(input, rows, shape, shape_bottom, dirs) ==
    LET shifted_shape == shift(shape, Dir(input[dirs + 1]))
        pushed == IF ~intersects(rows, shifted_shape, shape_bottom)
                  THEN shifted_shape ELSE shape
        rest == (dirs + 1) % Len(input)
    IN IF intersects(rows, pushed, shape_bottom - 1)
       THEN LET fixed == fix_shape(rows, pushed, shape_bottom)
            IN [panic |-> fixed.panic, rows |-> fixed.rows, dirs |-> rest,
                dir_index |-> dirs]
       ELSE FallLoop(input, rows, pushed, shape_bottom - 1, rest)

\* Board::play_single_iteration
play_single_iteration(input, rows, dirs, shapes) ==
    LET fallen == FallLoop(input, rows, spawn[shapes + 1], Len(rows) + 3, dirs)
    IN [panic |-> fallen.panic, rows |-> fallen.rows, dirs |-> fallen.dirs,
        shapes |-> (shapes + 1) % Len(spawn),
        shape_index |-> shapes, dir_index |-> fallen.dir_index]

\* usize values as four 16-bit limbs, the most significant first
Limb == Pow2(16)

U64(n) == <<0, 0, n \div Limb, n % Limb>>

\* usize wrapping subtraction a - b for a < b: 2^64 - (b - a)
U64WrappingSub(a, b) == <<Limb - 1, Limb - 1, Limb - 1, Limb - (b - a)>>

RECURSIVE U64DivRem(_, _, _, _)
\* usize / and %: the limbs of the quotient followed by the remainder
U64DivRem(n, d, i, rem) ==
    IF i > 4 THEN <<rem>>
    ELSE LET cur == rem * Limb + n[i]
         IN <<cur \div d>> \o U64DivRem(n, d, i + 1, cur % d)

RECURSIVE U64MulAdd(_, _, _, _)
\* usize wrapping n * m + carry
U64MulAdd(n, m, i, carry) ==
    IF i < 1 THEN <<>>
    ELSE LET cur == n[i] * m + carry
         IN U64MulAdd(n, m, i - 1, cur \div Limb) \o <<cur % Limb>>

\* The jet patterns of the model
Jets17 == [1..JetsLen17 -> {"<", ">"}]

Init17 ==
    /\ input17 \in Jets17
    /\ count17 \in 0..MaxCount17
    /\ board17 = <<>>
    /\ dirs17 = 0
    /\ shapes17 = 0
    /\ iteration17 = 0
    /\ cache17 = {}
    /\ loop17 = <<>>
    /\ left17 = 0
    /\ looped17 = <<>>
    /\ result17 = <<>>
    /\ pc17 = "find_loop"

Played17 == play_single_iteration(input17, board17, dirs17, shapes17)

Key17(played) ==
    [dir_index |-> played.dir_index, shape_index |-> played.shape_index,
     ceiling |-> impassable_ceiling(played.rows).ceiling]

Play17(played) ==
    /\ ~played.panic
    /\ board17' = played.rows
    /\ dirs17' = played.dirs
    /\ shapes17' = played.shapes

\* find_loop, lines 238-254: an iteration that does not find its key in the cache
FindLoopMiss17 ==
    /\ pc17 = "find_loop" /\ iteration17 < MaxIter17
    /\ LET played == Played17
           ceiling == impassable_ceiling(played.rows)
       IN /\ ceiling.some => \A e \in cache17 : e.key # Key17(played)
          /\ Play17(played)
          /\ cache17' = IF ceiling.some
                        THEN cache17 \cup {[key |-> Key17(played),
                                            iteration |-> iteration17,
                                            height |-> Len(played.rows)]}
                        ELSE cache17
    /\ iteration17' = iteration17 + 1
    /\ UNCHANGED <<input17, count17, loop17, left17, looped17, result17, pc17>>
    /\ UNCHANGED Others17

\* find_loop, lines 246-252: the key is in the cache, the Loop is returned and
\* compute (lines 262-264) starts on a fresh board
FindLoopHit17 ==
    /\ pc17 = "find_loop" /\ iteration17 < MaxIter17
    /\ LET played == Played17
       IN /\ ~played.panic
          /\ impassable_ceiling(played.rows).some
          /\ \E e \in cache17 :
                /\ e.key = Key17(played)
                /\ loop17' = [starts |-> e.iteration,
                              length |-> iteration17 - e.iteration,
                              gains_height |-> Len(played.rows) - e.height]
    /\ board17' = <<>>
    /\ dirs17' = 0
    /\ shapes17' = 0
    /\ left17' = 0
    /\ pc17' = "starts"
    /\ UNCHANGED <<input17, count17, iteration17, cache17, looped17, result17>>
    /\ UNCHANGED Others17

\* compute, lines 266-268: one rock of the first l.starts
Starts17 ==
    /\ pc17 = "starts" /\ left17 < loop17.starts
    /\ Play17(Played17)
    /\ left17' = left17 + 1
    /\ UNCHANGED <<input17, count17, iteration17, cache17, loop17, looped17, result17, pc17>>
    /\ UNCHANGED Others17

\* compute, lines 269-271, count >= l.starts
Skip17 ==
    /\ pc17 = "starts" /\ left17 >= loop17.starts
    /\ count17 >= loop17.starts
    /\ looped17' = U64(((count17 - loop17.starts) \div loop17.length) * loop17.gains_height)
    /\ left17' = (count17 - loop17.starts) % loop17.length
    /\ pc17' = "rest"
    /\ UNCHANGED <<input17, count17, board17, dirs17, shapes17, iteration17, cache17,
                   loop17, result17>>
    /\ UNCHANGED Others17

\* compute, line 269, count < l.starts in a build with overflow checks: the
\* subtraction panics
SkipPanic17 ==
    /\ pc17 = "starts" /\ left17 >= loop17.starts
    /\ count17 < loop17.starts
    /\ pc17' = "panic"
    /\ UNCHANGED <<input17, count17, board17, dirs17, shapes17, iteration17, cache17,
                   loop17, left17, looped17, result17>>
    /\ UNCHANGED Others17

\* compute, lines 269-271, count < l.starts in a build without overflow
\* checks: the subtraction and the multiplication wrap
SkipWrapped17 ==
    /\ pc17 = "starts" /\ left17 >= loop17.starts
    /\ count17 < loop17.starts
    /\ LET division == U64DivRem(U64WrappingSub(count17, loop17.starts),
                                 loop17.length, 1, 0)
       IN /\ looped17' = U64MulAdd(SubSeq(division, 1, 4), loop17.gains_height, 4, 0)
          /\ left17' = division[5]
    /\ pc17' = "rest"
    /\ UNCHANGED <<input17, count17, board17, dirs17, shapes17, iteration17, cache17,
                   loop17, result17>>
    /\ UNCHANGED Others17

\* compute, lines 272-274: one rock of the remaining count
Rest17 ==
    /\ pc17 = "rest" /\ left17 > 0
    /\ Play17(Played17)
    /\ left17' = left17 - 1
    /\ UNCHANGED <<input17, count17, iteration17, cache17, loop17, looped17, result17, pc17>>
    /\ UNCHANGED Others17

\* compute, line 275
Height17 ==
    /\ pc17 = "rest" /\ left17 = 0
    /\ result17' = U64MulAdd(looped17, 1, 4, Len(board17))
    /\ pc17' = "done"
    /\ UNCHANGED <<input17, count17, board17, dirs17, shapes17, iteration17, cache17,
                   loop17, left17, looped17>>
    /\ UNCHANGED Others17

Next17 ==
    \/ FindLoopMiss17
    \/ FindLoopHit17
    \/ Starts17
    \/ Skip17
    \/ SkipPanic17
    \/ SkipWrapped17
    \/ Rest17
    \/ Height17

Start17 == Init17 /\ Idle24 /\ Idle16 /\ Idle12 /\ Idle15 /\ Idle13 /\ Idle21 /\ Idle23 /\ Idle19 /\ Idle18 /\ Idle25 /\ IdleWT /\ IdleRG /\ Idle20 /\ Idle14 /\ IdleSH

Spec17 == Start17 /\ [][Next17]_vars

RECURSIVE Dropped17(_, _, _, _)
\* The board after n more rocks dropped one at a time
Dropped17(n, rows, dirs, shapes) ==
    IF n = 0 THEN rows
    ELSE LET played == play_single_iteration(input17, rows, dirs, shapes)
         IN Dropped17(n - 1, played.rows, played.dirs, played.shapes)

\* Board::fix_shape never panics: a rock is fixed where it does not intersect
\* the board, at most at the board's height
NoFixPanic17 ==
    (\/ pc17 = "find_loop" /\ iteration17 < MaxIter17
     \/ pc17 = "starts" /\ left17 < loop17.starts
     \/ pc17 = "rest" /\ left17 > 0) => ~Played17.panic

TowerHeight17 == Len(Dropped17(count17, <<>>, 0, 0))

\* C8: compute(input, n) equals the height of the tower after n rocks dropped
\* one at a time on a fresh board.
C8_ComputeEqualsDropping ==
    (pc17 \in {"done", "panic"}) =>
        (pc17 = "done" /\ result17 = U64(TowerHeight17))

\* compute returns the tower height whenever the count reaches the start of
\* the loop
ComputeFromStarts17 ==
    (pc17 = "done" /\ count17 >= loop17.starts) => result17 = U64(TowerHeight17)

(***************************************************************************)
(* Day 13: the packets.                                                    *)
(***************************************************************************)
MaxPackets13 == 2

\* The lines of the model, one character per element
Lines13 ==
    { <<"[", "]">>,
      <<"[", "1", "]">>,
      <<"[", "2", "]">>,
      <<"[", "[", "2", "]", "]">>,
      <<"[", "[", "[", "2", "]", "]", "]">>,
      <<"[", "2", ",", "1", "]">>,
      <<"[", "[", "2", "]", ",", "3", "]">>,
      <<"[", "6", "]">>,
      <<"[", "[", "6", "]", "]">>,
      <<"[", "[", "]", ",", "7", "]">>,
      <<"[", "1", "0", "]">>,
      <<"[", "[", "1", "0", "]", ",", "[", "]", "]">> }

Inputs13 == UNION { [1..n -> Lines13] : n \in 1..MaxPackets13 }

Integer(n) == <<"Integer", n>>

List(vec) == <<"List", vec>>

IsDigit(c) == \E d \in 0..9 : Digits[d + 1] = c

to_digit(c) == CHOOSE d \in 0..9 : Digits[d + 1] = c

RECURSIVE Value_scan(_, _, _, _)
\* Value::new, lines 19-43: the characters after the first; stack holds the
\* open lists, int is <<>> for None and <<n>> for Some(n)
Value_scan(chars, stack, vec, int) ==
    IF chars = <<>> THEN <<"panic">>
    ELSE LET c == Head(chars)
             flushed == IF int # <<>> THEN Append(vec, Integer(int[1])) ELSE vec
         IN IF IsDigit(c)
            THEN Value_scan(Tail(chars), stack, vec,
                            IF int # <<>> THEN <<int[1] * 10 + to_digit(c)>>
                            ELSE <<to_digit(c)>>)
            ELSE IF c = "["
            THEN Value_scan(Tail(chars), Append(stack, flushed), <<>>, <<>>)
            ELSE IF c = "]"
            THEN IF stack # <<>>
                 THEN Value_scan(Tail(chars), SubSeq(stack, 1, Len(stack) - 1),
                                 Append(stack[Len(stack)], List(flushed)), <<>>)
                 ELSE List(flushed)
            ELSE Value_scan(Tail(chars), stack, flushed, <<>>)

\* Value::new
Value_new(input) ==
    IF input = <<>> \/ Head(input) # "[" THEN <<"panic">>
    ELSE Value_scan(Tail(input), <<>>, <<>>, <<>>)

Less == 0 - 1

Equal == 0

Greater == 1

\* usize::cmp
usize_cmp(l, r) == IF l < r THEN Less ELSE IF l > r THEN Greater ELSE Equal

\* Ordering::reverse
reverse(ordering) == 0 - ordering

RECURSIVE compare(_, _)
RECURSIVE cmp_slice(_, _)
\* Value::compare, cmp_slice
cmp_slice(a, b) ==
    IF a = <<>> /\ b = <<>> THEN Equal
    ELSE IF b = <<>> THEN Greater
    ELSE IF a = <<>> THEN Less
    ELSE LET ordering == compare(Head(a), Head(b))
         IN IF ordering = Equal THEN cmp_slice(Tail(a), Tail(b)) ELSE ordering

\* Value::compare, cmp_single
cmp_single(l, b) ==
    LET first == IF b # <<>> THEN compare(l, Head(b)) ELSE Equal
    IN IF first # Equal THEN first ELSE usize_cmp(1, Len(b))

\* Value::compare
compare(self, other) ==
    IF self[1] = "List" /\ other[1] = "List" THEN cmp_slice(self[2], other[2])
    ELSE IF other[1] = "List" THEN cmp_single(self, other[2])
    ELSE IF self[1] = "List" THEN reverse(cmp_single(other, self[2]))
    ELSE usize_cmp(self[2], other[2])

\* PartialEq for Value
eq(self, other) == compare(self, other) = Equal

RECURSIVE sort_insert(_, _)
\* slice::sort, a stable sort: v goes behind the elements not greater than it
sort_insert(sorted, v) ==
    IF sorted = <<>> THEN <<v>>
    ELSE IF compare(sorted[Len(sorted)], v) = Greater
         THEN Append(sort_insert(SubSeq(sorted, 1, Len(sorted) - 1), v),
                     sorted[Len(sorted)])
         ELSE Append(sorted, v)

RECURSIVE sort(_)
sort(v) ==
    IF v = <<>> THEN <<>>
    ELSE sort_insert(sort(SubSeq(v, 1, Len(v) - 1)), v[Len(v)])

\* solve_2, line 118
extra_packets ==
    <<Value_new(<<"[", "[", "6", "]", "]">>), Value_new(<<"[", "[", "2", "]", "]">>)>>

\* <[Value]>::contains
contains(slice, v) == \E k \in DOMAIN slice : eq(slice[k], v)

RECURSIVE product(_)
\* Iterator::product
product(factors) == IF factors = <<>> THEN 1 ELSE Head(factors) * product(Tail(factors))

Init13 ==
    /\ input13 \in Inputs13
    /\ packets13 = <<>>
    /\ i13 = 1
    /\ factors13 = <<>>
    /\ result13 = 0
    /\ pc13 = "parse"

\* solve_2, line 117: parse and collect_vec, one line
Parse13 ==
    /\ pc13 = "parse" /\ i13 <= Len(input13)
    /\ IF Value_new(input13[i13]) = <<"panic">>
       THEN pc13' = "panic" /\ packets13' = packets13
       ELSE pc13' = pc13 /\ packets13' = Append(packets13, Value_new(input13[i13]))
    /\ i13' = i13 + 1
    /\ UNCHANGED <<input13, factors13, result13>>
    /\ UNCHANGED Others13

\* solve_2, lines 118-119
Extend13 ==
    /\ pc13 = "parse" /\ i13 > Len(input13)
    /\ packets13' = packets13 \o extra_packets
    /\ pc13' = "sort"
    /\ UNCHANGED <<input13, i13, factors13, result13>>
    /\ UNCHANGED Others13

\* solve_2, line 120
Sort13 ==
    /\ pc13 = "sort"
    /\ packets13' = sort(packets13)
    /\ pc13' = "product"
    /\ UNCHANGED <<input13, i13, factors13, result13>>
    /\ UNCHANGED Others13

\* solve_2, lines 121-126
Product13 ==
    /\ pc13 = "product"
    /\ LET kept == SelectSeq([k \in DOMAIN packets13 |-> k],
                             LAMBDA k : contains(extra_packets, packets13[k]))
       IN /\ factors13' = kept
          /\ result13' = product(kept)
    /\ pc13' = "done"
    /\ UNCHANGED <<input13, packets13, i13>>
    /\ UNCHANGED Others13

Next13 ==
    \/ Parse13
    \/ Extend13
    \/ Sort13
    \/ Product13

Start13 == Init13 /\ Idle24 /\ Idle16 /\ Idle12 /\ Idle15 /\ Idle17 /\ Idle21 /\ Idle23 /\ Idle19 /\ Idle18 /\ Idle25 /\ IdleWT /\ IdleRG /\ Idle20 /\ Idle14 /\ IdleSH

Spec13 == Start13 /\ [][Next13]_vars

RECURSIVE RightOrder13(_, _)
\* The order of the puzzle: integers by value, lists item by item and then by
\* length, an integer against a list as the list of that integer
RightOrder13(l, r) ==
    IF l[1] = "Integer" /\ r[1] = "Integer"
    THEN (IF l[2] < r[2] THEN 0 - 1 ELSE IF l[2] > r[2] THEN 1 ELSE 0)
    ELSE IF l[1] = "Integer" THEN RightOrder13(<<"List", <<l>>>>, r)
    ELSE IF r[1] = "Integer" THEN RightOrder13(l, <<"List", <<r>>>>)
    ELSE IF l[2] = <<>> /\ r[2] = <<>> THEN 0
    ELSE IF l[2] = <<>> THEN 0 - 1
    ELSE IF r[2] = <<>> THEN 1
    ELSE LET head == RightOrder13(l[2][1], r[2][1])
         IN IF head # 0 THEN head
            ELSE RightOrder13(<<"List", Tail(l[2])>>, <<"List", Tail(r[2])>>)

Divider13(n) == <<"List", << <<"List", << <<"Integer", n>> >> >> >> >>

\* The places a divider can take among the input packets and the other
\* divider once they are sorted
Places13(n) ==
    LET all == [k \in DOMAIN input13 |-> Value_new(input13[k])]
                  \o <<Divider13(2), Divider13(6)>>
        before == Cardinality({ k \in DOMAIN all : RightOrder13(all[k], Divider13(n)) < 0 })
        level == Cardinality({ k \in DOMAIN all : RightOrder13(all[k], Divider13(n)) = 0 })
    IN (before + 1)..(before + level)

\* C9: solve_2 returns the product of exactly two numbers, the positions
\* (from 1) of the dividers [[2]] and [[6]] among the sorted packets.
C9_TwoDividerPositions ==
    pc13 = "done" =>
        \E p2 \in Places13(2), p6 \in Places13(6) : result13 = p2 * p6

\* On inputs without a packet that compares equal to a divider the two
\* positions are the only factors
DistinctPackets13 ==
    (pc13 = "done" /\ \A k \in DOMAIN input13 :
                         /\ RightOrder13(Value_new(input13[k]), Divider13(2)) # 0
                         /\ RightOrder13(Value_new(input13[k]), Divider13(6)) # 0) =>
        /\ Len(factors13) = 2
        /\ factors13[1] \in Places13(2)
        /\ factors13[2] \in Places13(6)
        /\ result13 = factors13[1] * factors13[2]

(***************************************************************************)
(* Day 21: the monkeys.                                                    *)
(***************************************************************************)
MaxDepth21 == 2

MaxConst21 == 3

\* The operations on the way from humn to root, the outermost first: the
\* operation's character, the side humn is on, the number on the other side
Kinds21 == {"+", "-", "*", "/"} \X {"L", "R"} \X ({0} \cup 2..MaxConst21)

NodeNames21 == <<"na", "nb", "nc", "nd">>

ConstNames21 == <<"ca", "cb", "cc", "cd">>

\* The lines of an input as captures: <<name, number>> or <<name, lhs, op, rhs>>
Lines21(kinds, side, target) ==
    LET depth == Len(kinds)
        below(i) == IF i = depth THEN "humn" ELSE NodeNames21[i + 1]
        top == IF depth = 0 THEN "humn" ELSE NodeNames21[1]
        node(i) == IF kinds[i][2] = "L"
                   THEN <<NodeNames21[i], below(i), kinds[i][1], ConstNames21[i]>>
                   ELSE <<NodeNames21[i], ConstNames21[i], kinds[i][1], below(i)>>
    IN << IF side = "L" THEN <<"root", top, "+", "tt">> ELSE <<"root", "tt", "+", top>>,
          <<"tt", Numeral(target)>>,
          <<"humn", Numeral(5)>> >>
       \o [i \in 1..depth |-> node(i)]
       \o [i \in 1..depth |-> <<ConstNames21[i], Numeral(kinds[i][3])>>]

Inputs21 ==
    UNION { { Lines21(kinds, side, target) :
                 kinds \in [1..depth -> Kinds21],
                 side \in {"L", "R"},
                 target \in 0..MaxConst21 }
            : depth \in 0..MaxDepth21 }

\* parse, lines 157-172
parse21(line) ==
    IF Len(line) = 2 THEN <<"Immediate", parse_isize(line[2])>>
    ELSE <<"Delayed", line[2], line[4],
           CASE line[3] = "*" -> "Mul"
             [] line[3] = "/" -> "Div"
             [] line[3] = "+" -> "Add"
             [] line[3] = "-" -> "Sub">>

\* parse(input).collect(): the map of the monkeys
Monkeys21(input) ==
    [name \in { input[k][1] : k \in DOMAIN input } |->
        parse21(input[CHOOSE k \in DOMAIN input :
                         /\ input[k][1] = name
                         /\ \A j \in DOMAIN input : input[j][1] = name => j <= k])]

Panicked == [panic |-> TRUE]

Value(v) == [panic |-> FALSE, value |-> v]

\* isize /
TruncDiv(lhs, rhs) ==
    IF (lhs < 0) = (rhs < 0) THEN Abs(lhs) \div Abs(rhs) ELSE 0 - (Abs(lhs) \div Abs(rhs))

\* Op::eval
Op_eval(op, lhs, rhs) ==
    CASE op = "Add" -> Value(lhs + rhs)
      [] op = "Sub" -> Value(lhs - rhs)
      [] op = "Mul" -> Value(lhs * rhs)
      [] op = "Div" -> IF rhs = 0 THEN Panicked ELSE Value(TruncDiv(lhs, rhs))

RECURSIVE find_unknown(_, _)
\* SimplifiedExpr::find_unknown
find_unknown(self, accum) ==
    IF self[1] = "Unknown" THEN Value(accum)
    ELSE IF self[1] = "LhsExpr"
    THEN LET rhs == self[3]
             op == self[4]
             next == CASE op = "Mul" -> Op_eval("Div", accum, rhs)
                       [] op = "Div" -> Op_eval("Mul", accum, rhs)
                       [] op = "Add" -> Op_eval("Sub", accum, rhs)
                       [] op = "Sub" -> Op_eval("Add", accum, rhs)
         IN IF next.panic THEN Panicked ELSE find_unknown(self[2], next.value)
    ELSE LET lhs == self[2]
             op == self[4]
             next == CASE op = "Mul" -> Op_eval("Div", accum, lhs)
                       [] op = "Div" -> Op_eval("Div", lhs, accum)
                       [] op = "Add" -> Op_eval("Sub", accum, lhs)
                       [] op = "Sub" -> Op_eval("Sub", lhs, accum)
         IN IF next.panic THEN Panicked ELSE find_unknown(self[3], next.value)

RECURSIVE simplify(_)
\* Expr::simplify; <<"panic">> where the code panics
simplify(self) ==
    IF self[1] = "Unknown" THEN <<"Unknown">>
    ELSE IF self[1] = "Literal" THEN <<"panic">>
    ELSE LET lhs == self[2]
             rhs == self[3]
             op == self[4]
         IN IF rhs[1] = "Literal"
            THEN IF simplify(lhs) = <<"panic">> THEN <<"panic">>
                 ELSE <<"LhsExpr", simplify(lhs), rhs[2], op>>
            ELSE IF lhs[1] = "Literal"
            THEN IF simplify(rhs) = <<"panic">> THEN <<"panic">>
                 ELSE <<"RhsExpr", lhs[2], simplify(rhs), op>>
            ELSE <<"panic">>

\* topsort, lines 118-127: the monkeys a monkey waits for
Edges21(monkeys, name) ==
    IF monkeys[name][1] = "Delayed" THEN {monkeys[name][2], monkeys[name][3]} ELSE {}

\* topsort, lines 120-126: the monkeys that wait for a monkey
Dependents21(monkeys, node) == { name \in DOMAIN monkeys : node \in Edges21(monkeys, name) }

RECURSIVE TopsortLoop(_, _, _, _)
\* topsort, lines 136-145; graph holds the edges not yet removed
TopsortLoop(monkeys, graph, stack, result) ==
    IF stack = <<>> THEN result
    ELSE LET node == stack[Len(stack)]
             dependents == Dependents21(monkeys, node)
             removed == [name \in DOMAIN graph |->
                            IF name \in dependents THEN graph[name] \ {node}
                            ELSE graph[name]]
             freed == { name \in dependents : removed[name] = {} }
             pushed == IF freed = {} THEN <<>> ELSE <<CHOOSE name \in freed : TRUE>>
         IN TopsortLoop(monkeys, removed,
                        SubSeq(stack, 1, Len(stack) - 1) \o pushed,
                        Append(result, node))

\* topsort, where stack is the order in which the map yields the monkeys
\* that wait for nobody
topsort(monkeys, stack) ==
    TopsortLoop(monkeys, [name \in DOMAIN monkeys |-> Edges21(monkeys, name)], stack, <<>>)

RECURSIVE Expressions21(_, _, _)
\* get_expression, lines 192-212: the expressions after the names of order
Expressions21(monkeys, order, expressions) ==
    IF order = <<>> THEN expressions
    ELSE LET name == Head(order)
             monkey == monkeys[name]
             expr ==
                 IF name = "humn" THEN <<"Unknown">>
                 ELSE IF name = "root" /\ monkey[1] = "Delayed"
                 THEN <<"BinaryOperation", expressions[monkey[2]],
                        expressions[monkey[3]], "Sub">>
                 ELSE IF monkey[1] = "Immediate" THEN <<"Literal", monkey[2]>>
                 ELSE LET lhs == expressions[monkey[2]]
                          rhs == expressions[monkey[3]]
                      IN IF lhs[1] = "Literal" /\ rhs[1] = "Literal"
                         THEN LET folded == Op_eval(monkey[4], lhs[2], rhs[2])
                              IN IF folded.panic THEN <<"panic">>
                                 ELSE <<"Literal", folded.value>>
                         ELSE <<"BinaryOperation", lhs, rhs, monkey[4]>>
         IN Expressions21(monkeys, Tail(order),
                          [n \in DOMAIN expressions \cup {name} |->
                              IF n = name THEN expr ELSE expressions[n]])

Permutations21(S) ==
    { f \in [1..Cardinality(S) -> S] : \A i, j \in DOMAIN f : f[i] = f[j] => i = j }

Init21 ==
    /\ input21 \in Inputs21
    /\ monkeys21 = <<>>
    /\ order21 = <<>>
    /\ expr21 = <<>>
    /\ result21 = 0
    /\ pc21 = "parse"

\* get_expression, line 190
Parse21 ==
    /\ pc21 = "parse"
    /\ monkeys21' = Monkeys21(input21)
    /\ pc21' = "topsort"
    /\ UNCHANGED <<input21, order21, expr21, result21>>
    /\ UNCHANGED Others21

\* get_expression, line 192: topsort, the map yielding the monkeys that wait
\* for nobody in any order
Topsort21 ==
    /\ pc21 = "topsort"
    /\ \E stack \in Permutations21({ name \in DOMAIN monkeys21 :
                                       Edges21(monkeys21, name) = {} }) :
          order21' = topsort(monkeys21, stack)
    /\ pc21' = "expressions"
    /\ UNCHANGED <<input21, monkeys21, expr21, result21>>
    /\ UNCHANGED Others21

\* get_expression, lines 192-213
GetExpression21 ==
    /\ pc21 = "expressions"
    /\ expr21' = Expressions21(monkeys21, order21, <<>>)["root"]
    /\ pc21' = "solve"
    /\ UNCHANGED <<input21, monkeys21, order21, result21>>
    /\ UNCHANGED Others21

\* solve_2, line 219: the unknown is found
Solve21 ==
    /\ pc21 = "solve"
    /\ simplify(expr21) # <<"panic">>
    /\ ~find_unknown(simplify(expr21), 0).panic
    /\ result21' = find_unknown(simplify(expr21), 0).value
    /\ pc21' = "done"
    /\ UNCHANGED <<input21, monkeys21, order21, expr21>>
    /\ UNCHANGED Others21

\* solve_2, line 219: simplify panics or find_unknown divides by zero
SolvePanic21 ==
    /\ pc21 = "solve"
    /\ \/ simplify(expr21) = <<"panic">>
       \/ find_unknown(simplify(expr21), 0).panic
    /\ pc21' = "panic"
    /\ UNCHANGED <<input21, monkeys21, order21, expr21, result21>>
    /\ UNCHANGED Others21

Next21 ==
    \/ Parse21
    \/ Topsort21
    \/ GetExpression21
    \/ Solve21
    \/ SolvePanic21

Start21 == Init21 /\ Idle24 /\ Idle16 /\ Idle12 /\ Idle15 /\ Idle17 /\ Idle13 /\ Idle23 /\ Idle19 /\ Idle18 /\ Idle25 /\ IdleWT /\ IdleRG /\ Idle20 /\ Idle14 /\ IdleSH

Spec21 == Start21 /\ [][Next21]_vars

SearchRange21 == 40

RECURSIVE Yell21(_, _)
\* What a monkey yells when humn yells h: Op::eval on what its two monkeys
\* yell, a panic when a division by zero is met
Yell21(name, h) ==
    IF name = "humn" THEN Value(h)
    ELSE IF monkeys21[name][1] = "Immediate" THEN Value(monkeys21[name][2])
    ELSE LET lhs == Yell21(monkeys21[name][2], h)
             rhs == Yell21(monkeys21[name][3], h)
         IN IF lhs.panic \/ rhs.panic THEN Panicked
            ELSE Op_eval(monkeys21[name][4], lhs.value, rhs.value)

\* With humn = h the two operands of root are equal
Balanced21(h) ==
    LET lhs == Yell21(monkeys21["root"][2], h)
        rhs == Yell21(monkeys21["root"][3], h)
    IN ~lhs.panic /\ ~rhs.panic /\ lhs.value = rhs.value

Solvable21 == \E h \in (0 - SearchRange21)..SearchRange21 : Balanced21(h)

\* C10: solve_2 returns a value h for humn with which the two operands of
\* root evaluate to equal values.  The claim is stated on the inputs for which
\* such a value exists; on the others nothing that could be returned is one.
C10_ReturnedValueBalances ==
    (pc21 \in {"done", "panic"} /\ Solvable21) =>
        (pc21 = "done" /\ Balanced21(result21))

\* When every division of the inversion is exact and nothing is divided by
\* zero the returned value balances root
RECURSIVE ExactInversion21(_, _)
ExactInversion21(self, accum) ==
    IF self[1] = "Unknown" THEN TRUE
    ELSE IF self[1] = "LhsExpr"
    THEN /\ self[3] # 0 \/ self[4] \in {"Add", "Sub"}
         /\ self[4] = "Mul" => Abs(accum) % Abs(self[3]) = 0
         /\ ExactInversion21(self[2], find_unknown(<<"LhsExpr", <<"Unknown">>, self[3], self[4]>>, accum).value)
    ELSE /\ self[4] = "Mul" => (self[2] # 0 /\ Abs(accum) % Abs(self[2]) = 0)
         /\ self[4] = "Div" => (accum # 0 /\ self[2] # 0 /\ Abs(self[2]) % Abs(accum) = 0)
         /\ ExactInversion21(self[3], find_unknown(<<"RhsExpr", self[2], <<"Unknown">>, self[4]>>, accum).value)

ExactInputsBalance21 ==
    (pc21 = "solve" /\ simplify(expr21) # <<"panic">> /\ ExactInversion21(simplify(expr21), 0)) =>
        /\ ~find_unknown(simplify(expr21), 0).panic
        /\ Balanced21(find_unknown(simplify(expr21), 0).value)

(***************************************************************************)
(* Day 23: the elves.                                                      *)
(***************************************************************************)
MaxElves23 == 4

MaxRounds23 == 12

Rows23 == 4

\* The scans of the model: Rows23 lines of 3 characters with at most
\* MaxElves23 elves
Scans23 ==
    { g \in [1..Rows23 -> [1..3 -> {"#", "."}]] :
        Cardinality({ c \in (1..3) \X (1..Rows23) : g[c[2]][c[1]] = "#" })
            <= MaxElves23 }

\* The orders in which a hash set or the keys of a hash map can be iterated
Orders23(S) ==
    { f \in [1..Cardinality(S) -> S] : \A i, j \in DOMAIN f : f[i] = f[j] => i = j }

\* Point::apply_vector
apply_vector(point, vector) == <<point[1] + vector[1], point[2] + vector[2]>>

\* Point::apply_direction
apply_direction(point, direction) ==
    [point EXCEPT ![direction.dim_index + 1] = @ + direction.vector]

\* adjacent_vectors
adjacent_vectors ==
    << <<0 - 1, 0 - 1>>, <<0 - 1, 0>>, <<0 - 1, 1>>, <<0, 0 - 1>>,
       <<0, 1>>, <<1, 0 - 1>>, <<1, 0>>, <<1, 1>> >>

\* Direction::points
Direction_points(direction, point) ==
    { apply_vector(point, adjacent_vectors[k]) :
        k \in { j \in DOMAIN adjacent_vectors :
                  adjacent_vectors[j][direction.dim_index + 1] = direction.vector } }

\* Elves::new
Elves_new(input) ==
    [positions |-> { <<x - 1, y - 1>> : <<x, y>> \in
                        { c \in (1..3) \X (1..Len(input)) : input[c[2]][c[1]] = "#" } },
     directions |-> << [dim_index |-> 1, vector |-> 0 - 1],
                       [dim_index |-> 1, vector |-> 1],
                       [dim_index |-> 0, vector |-> 0 - 1],
                       [dim_index |-> 0, vector |-> 1] >>]

RECURSIVE will_propose_loop(_, _, _)
\* Elves::round, lines 136-143, the points taken in the given order
will_propose_loop(positions, order, will_propose) ==
    IF order = <<>> THEN will_propose
    ELSE LET point == Head(order)
         IN will_propose_loop(positions, Tail(order),
              IF \E k \in DOMAIN adjacent_vectors :
                    apply_vector(point, adjacent_vectors[k]) \in positions
              THEN will_propose \cup {point} ELSE will_propose)

RECURSIVE first_free(_, _, _, _)
\* Elves::round, lines 149-157: the index of the first direction whose three
\* points are free, 0 when there is none
first_free(positions, directions, point, k) ==
    IF k > Len(directions) THEN 0
    ELSE IF Direction_points(directions[k], point) \cap positions # {}
         THEN first_free(positions, directions, point, k + 1)
         ELSE k

\* HashMap::insert
map_insert(map, key, value) ==
    [k \in DOMAIN map \cup {key} |-> IF k = key THEN value ELSE map[k]]

RECURSIVE proposals_loop(_, _, _, _, _)
\* Elves::round, lines 148-158, the points taken in the given order
proposals_loop(positions, directions, order, proposals, destination_counts) ==
    IF order = <<>>
    THEN [proposals |-> proposals, destination_counts |-> destination_counts]
    ELSE LET point == Head(order)
             k == first_free(positions, directions, point, 1)
             new_point == apply_direction(point, directions[k])
         IN IF k = 0
            THEN proposals_loop(positions, directions, Tail(order), proposals,
                                destination_counts)
            ELSE proposals_loop(positions, directions, Tail(order),
                    map_insert(proposals, point, new_point),
                    map_insert(destination_counts, new_point,
                               (IF new_point \in DOMAIN destination_counts
                                THEN destination_counts[new_point] ELSE 0) + 1))

\* good_proposals_loop with a destination given to the first proposal of the
\* iteration that asks for it
RECURSIVE good_proposals_first_wins(_, _, _, _)
good_proposals_first_wins(proposals, destination_counts, order, good_proposals) ==
    IF order = <<>> THEN good_proposals
    ELSE LET point == Head(order)
             new_point == proposals[point]
         IN good_proposals_first_wins(proposals, destination_counts, Tail(order),
              IF \A k \in DOMAIN good_proposals : good_proposals[k] # new_point
              THEN map_insert(good_proposals, point, new_point) ELSE good_proposals)

RECURSIVE good_proposals_loop(_, _, _, _)
\* Elves::round, lines 162-167, the proposals taken in the given order
good_proposals_loop(proposals, destination_counts, order, good_proposals) ==
    IF order = <<>> THEN good_proposals
    ELSE LET point == Head(order)
             new_point == proposals[point]
         IN good_proposals_loop(proposals, destination_counts, Tail(order),
              IF destination_counts[new_point] = 1
              THEN map_insert(good_proposals, point, new_point) ELSE good_proposals)

RECURSIVE new_positions_loop(_, _, _)
\* Elves::round, lines 170-173, the points taken in the given order
new_positions_loop(good_proposals, order, new_positions) ==
    IF order = <<>> THEN new_positions
    ELSE LET point == Head(order)
         IN new_positions_loop(good_proposals, Tail(order),
              new_positions \cup {IF point \in DOMAIN good_proposals
                                  THEN good_proposals[point] ELSE point})

\* rotate_left1 with the order of the directions left as it is
rotate_none(v) == v

\* Vec::rotate_left(1)
rotate_left1(v) == IF v = <<>> THEN v ELSE Append(Tail(v), Head(v))

\* BBox::new, BBox::width, BBox::height
BBox_width(points) == Max({ p[1] : p \in points }) - Min({ p[1] : p \in points }) + 1

BBox_height(points) == Max({ p[2] : p \in points }) - Min({ p[2] : p \in points }) + 1

EmptyMap == [k \in {} |-> 0]

Init23 ==
    /\ input23 \in Scans23
    /\ entry23 \in {"solve", "solve_2"}
    /\ positions23 = Elves_new(input23).positions
    /\ directions23 = Elves_new(input23).directions
    /\ will_propose23 = {}
    /\ proposals23 = EmptyMap
    /\ destination_counts23 = EmptyMap
    /\ good_proposals23 = EmptyMap
    /\ i23 = IF entry23 = "solve" THEN 0 ELSE 1
    /\ moved23 = FALSE
    /\ result23 = 0
    /\ pc23 = "will_propose"

\* Elves::round, lines 135-143
WillPropose23 ==
    /\ pc23 = "will_propose"
    /\ \E order \in Orders23(positions23) :
          will_propose23' = will_propose_loop(positions23, order, {})
    /\ pc23' = "proposals"
    /\ UNCHANGED <<input23, entry23, positions23, directions23, proposals23,
                   destination_counts23, good_proposals23, i23, moved23, result23>>
    /\ UNCHANGED Others23

\* Elves::round, lines 146-159
Proposals23 ==
    /\ pc23 = "proposals"
    /\ \E order \in Orders23(will_propose23) :
          LET made == proposals_loop(positions23, directions23, order, EmptyMap, EmptyMap)
          IN /\ proposals23' = made.proposals
             /\ destination_counts23' = made.destination_counts
    /\ directions23' = rotate_left1(directions23)
    /\ pc23' = "good_proposals"
    /\ UNCHANGED <<input23, entry23, positions23, will_propose23, good_proposals23,
                   i23, moved23, result23>>
    /\ UNCHANGED Others23

\* Elves::round, lines 162-167
GoodProposals23 ==
    /\ pc23 = "good_proposals"
    /\ \E order \in Orders23(DOMAIN proposals23) :
          good_proposals23' =
              good_proposals_loop(proposals23, destination_counts23, order, EmptyMap)
    /\ pc23' = "new_positions"
    /\ UNCHANGED <<input23, entry23, positions23, directions23, will_propose23,
                   proposals23, destination_counts23, i23, moved23, result23>>
    /\ UNCHANGED Others23

\* Elves::round, lines 170-175
NewPositions23 ==
    /\ pc23 = "new_positions"
    /\ \E order \in Orders23(positions23) :
          positions23' = new_positions_loop(good_proposals23, order, {})
    /\ moved23' = (DOMAIN good_proposals23 # {})
    /\ pc23' = "returned"
    /\ UNCHANGED <<input23, entry23, directions23, will_propose23, proposals23,
                   destination_counts23, good_proposals23, i23, result23>>
    /\ UNCHANGED Others23

\* solve, lines 185-187: the next of the 10 rounds
SolveNext23 ==
    /\ pc23 = "returned" /\ entry23 = "solve"
    /\ i23 + 1 < 10
    /\ i23' = i23 + 1
    /\ pc23' = "will_propose"
    /\ UNCHANGED <<input23, entry23, positions23, directions23, will_propose23,
                   proposals23, destination_counts23, good_proposals23, moved23, result23>>
    /\ UNCHANGED Others23

\* solve, lines 188-189
SolveBounds23 ==
    /\ pc23 = "returned" /\ entry23 = "solve"
    /\ ~(i23 + 1 < 10)
    /\ IF positions23 = {}
       THEN pc23' = "panic" /\ result23' = result23
       ELSE /\ pc23' = "done"
            /\ result23' = BBox_width(positions23) * BBox_height(positions23)
                              - Cardinality(positions23)
    /\ UNCHANGED <<input23, entry23, positions23, directions23, will_propose23,
                   proposals23, destination_counts23, good_proposals23, i23, moved23>>
    /\ UNCHANGED Others23

\* solve_2, lines 194-198: the round moved an elf
Solve2Next23 ==
    /\ pc23 = "returned" /\ entry23 = "solve_2"
    /\ moved23
    /\ i23 < MaxRounds23
    /\ i23' = i23 + 1
    /\ pc23' = "will_propose"
    /\ UNCHANGED <<input23, entry23, positions23, directions23, will_propose23,
                   proposals23, destination_counts23, good_proposals23, moved23, result23>>
    /\ UNCHANGED Others23

\* solve_2, lines 195-197: the round moved no elf
Solve2Return23 ==
    /\ pc23 = "returned" /\ entry23 = "solve_2"
    /\ ~moved23
    /\ result23' = i23
    /\ pc23' = "done"
    /\ UNCHANGED <<input23, entry23, positions23, directions23, will_propose23,
                   proposals23, destination_counts23, good_proposals23, i23, moved23>>
    /\ UNCHANGED Others23

Next23 ==
    \/ WillPropose23
    \/ Proposals23
    \/ GoodProposals23
    \/ NewPositions23
    \/ SolveNext23
    \/ SolveBounds23
    \/ Solve2Next23
    \/ Solve2Return23

Start23 == Init23 /\ Idle24 /\ Idle16 /\ Idle12 /\ Idle15 /\ Idle17 /\ Idle13 /\ Idle21 /\ Idle19 /\ Idle18 /\ Idle25 /\ IdleWT /\ IdleRG /\ Idle20 /\ Idle14 /\ IdleSH

Spec23 == Start23 /\ [][Next23]_vars

\* The rounds are taken one after the other as long as one is possible
Live23 == Start23 /\ [][Next23]_vars /\ WF_vars(Next23)

\* The rules of the puzzle, on sets: the four directions as vectors, north first
Compass23 == << <<0, 0 - 1>>, <<0, 1>>, <<0 - 1, 0>>, <<1, 0>> >>

\* The order in which the directions are considered in round i (from 1)
CompassAt23(i) == [k \in 1..4 |-> Compass23[((k - 1 + i - 1) % 4) + 1]]

\* The three cells on the side d of p
Side23(p, d) ==
    { <<p[1] + d[1], p[2] + d[2]>>,
      <<p[1] + d[1] + d[2], p[2] + d[2] + d[1]>>,
      <<p[1] + d[1] - d[2], p[2] + d[2] - d[1]>> }

\* The eight cells around p
Around23(p) ==
    { <<p[1] + dx, p[2] + dy>> : <<dx, dy>> \in
         { v \in ((0 - 1)..1) \X ((0 - 1)..1) : v # <<0, 0>> } }

\* The cell the elf at p wishes to be on after the round
Wish23(P, dirs, p) ==
    LET free == { k \in 1..4 : Side23(p, dirs[k]) \cap P = {} }
    IN IF Around23(p) \cap P = {} \/ free = {} THEN p
       ELSE <<p[1] + dirs[Min(free)][1], p[2] + dirs[Min(free)][2]>>

\* The cell the elf at p is on after the round
Target23(P, dirs, p) ==
    IF Cardinality({ q \in P : Wish23(P, dirs, q) = Wish23(P, dirs, p) }) = 1
    THEN Wish23(P, dirs, p) ELSE p

After23(P, dirs) == { Target23(P, dirs, p) : p \in P }

RECURSIVE FirstStill23(_, _)
\* The number of the first round, from round i on, in which no elf changes
\* position; 0 when there is none up to round MaxRounds23
FirstStill23(P, i) ==
    IF i > MaxRounds23 THEN 0
    ELSE IF \A p \in P : Target23(P, CompassAt23(i), p) = p THEN i
         ELSE FirstStill23(After23(P, CompassAt23(i)), i + 1)

RECURSIVE AfterRounds23(_, _, _)
\* The positions after the rounds i .. n
AfterRounds23(P, i, n) ==
    IF i > n THEN P ELSE AfterRounds23(After23(P, CompassAt23(i)), i + 1, n)

\* The elves of a scan
ElvesOf23(input) ==
    { <<x, y>> \in (0..2) \X (0..(Len(input) - 1)) : input[y + 1][x + 1] = "#" }

\* C11: solve_2 terminates for every set of elves of the model, and returns the
\* 1-based number of the first round in which no elf changes position
C11_Solve2ReturnsFirstStillRound ==
    (entry23 = "solve_2") ~>
        (pc23 = "done" /\ result23 = FirstStill23(ElvesOf23(input23), 1)
                       /\ result23 >= 1)

\* solve_2 has returned after at least three rounds that moved an elf
C11_Witness ==
    entry23 = "solve_2" /\ pc23 = "done" /\ result23 >= 4

\* C16: in every loop of Elves::round all iteration orders of the hash set or
\* hash map give the same outcome, and solve and solve_2 return the one answer
\* that the rules give for the input
C16_RoundIsOrderIndependent ==
    /\ pc23 = "will_propose" =>
          Cardinality({ will_propose_loop(positions23, order, {}) :
                           order \in Orders23(positions23) }) = 1
    /\ pc23 = "proposals" =>
          Cardinality({ proposals_loop(positions23, directions23, order,
                                       EmptyMap, EmptyMap) :
                           order \in Orders23(will_propose23) }) = 1
    /\ pc23 = "good_proposals" =>
          Cardinality({ good_proposals_loop(proposals23, destination_counts23,
                                            order, EmptyMap) :
                           order \in Orders23(DOMAIN proposals23) }) = 1
    /\ pc23 = "new_positions" =>
          Cardinality({ new_positions_loop(good_proposals23, order, {}) :
                           order \in Orders23(positions23) }) = 1
    /\ pc23 = "returned" =>
          /\ positions23 = AfterRounds23(ElvesOf23(input23), 1,
                              IF entry23 = "solve" THEN i23 + 1 ELSE i23)
          /\ moved23 = (good_proposals23 # EmptyMap)
    /\ (pc23 = "done" /\ entry23 = "solve") =>
          LET P == AfterRounds23(ElvesOf23(input23), 1, 10)
          IN result23 = (Max({ p[1] : p \in P }) - Min({ p[1] : p \in P }) + 1)
                          * (Max({ p[2] : p \in P }) - Min({ p[2] : p \in P }) + 1)
                          - Cardinality(P)
    /\ (pc23 = "done" /\ entry23 = "solve_2") =>
          result23 = FirstStill23(ElvesOf23(input23), 1)

\* Two elves have proposed the same destination and the proposals are about
\* to be sorted into good and bad ones
C16_Witness ==
    /\ pc23 = "good_proposals"
    /\ \E p, q \in DOMAIN proposals23 : p # q /\ proposals23[p] = proposals23[q]

(***************************************************************************)
(* Day 19: the robot blueprints.                                           *)
(***************************************************************************)
MaxMinutes19 == 14

MaxCost19 == 3

\* parse, lines 26-50: the Blueprint made of the six numbers of a line
Blueprint_new(ore_ore, clay_ore, obs_ore, obs_clay, geo_ore, geo_obs) ==
    [robots |-> << <<ore_ore, 0, 0>>, <<clay_ore, 0, 0>>,
                   <<obs_ore, obs_clay, 0>>, <<geo_ore, 0, geo_obs>> >>,
     caps |-> << Max({ore_ore, clay_ore, obs_ore, geo_ore}), obs_clay, geo_obs >>]

\* The blueprints of the model: a clay robot for 1 ore, an obsidian robot for
\* 1 ore and 1 clay, an ore robot for 2 .. MaxCost19 ore and a geode robot for
\* MaxCost19 ore and 1 obsidian
Blueprints19 ==
    { Blueprint_new(ore_ore, 1, 1, 1, MaxCost19, 1) : ore_ore \in 2..MaxCost19 }

\* recurse, line 75
affordable(blueprint, state, build_index) ==
    \A k \in 1..3 : state.resources[k] >= blueprint.robots[build_index][k]

\* recurse, lines 76-82: the state after a minute in which the robot
\* build_index is built (build) or nothing is built
minute(blueprint, state, build_index, build) ==
    LET collected == [k \in 1..4 |-> state.resources[k] + state.robots[k]]
    IN [robots |-> IF build THEN [state.robots EXCEPT ![build_index] = @ + 1]
                   ELSE state.robots,
        resources |-> IF build
                      THEN [k \in 1..4 |->
                              IF k <= 3
                              THEN collected[k] - blueprint.robots[build_index][k]
                              ELSE collected[k]]
                      ELSE collected,
        budget |-> state.budget - 1]

\* recurse, lines 84-86: the break after an affordable geode robot
stops_after(build, build_index) == build /\ build_index = 4

RECURSIVE compute_recurse(_, _, _), build_loop(_, _, _, _, _)
\* compute::recurse; the memo is handed on and returned with the score
compute_recurse(memo, blueprint, state) ==
    IF state.budget = 0
    THEN [memo |-> memo, score |-> state.resources[4]]
    ELSE IF \E k \in 1..3 : state.robots[k] > blueprint.caps[k]
    THEN [memo |-> memo, score |-> state.resources[4]]
    ELSE IF state \in DOMAIN memo
    THEN [memo |-> memo, score |-> memo[state]]
    ELSE LET done == build_loop(memo, blueprint, state, 4, state.resources[4])
         IN [memo |-> (state :> done.score) @@ done.memo, score |-> done.score]

\* compute::recurse, lines 73-87: the loop over build_index, downwards
build_loop(memo, blueprint, state, build_index, best_score) ==
    IF build_index = 0 THEN [memo |-> memo, score |-> best_score]
    ELSE LET build == affordable(blueprint, state, build_index)
             sub == compute_recurse(memo, blueprint,
                            minute(blueprint, state, build_index, build))
             rest(best) ==
                 IF stops_after(build, build_index)
                 THEN [memo |-> sub.memo, score |-> best]
                 ELSE build_loop(sub.memo, blueprint, state, build_index - 1, best)
         IN IF sub.score > best_score THEN rest(sub.score) ELSE rest(best_score)

\* compute, lines 93-98
initial_state(minutes) ==
    [robots |-> <<1, 0, 0, 0>>, resources |-> <<0, 0, 0, 0>>, budget |-> minutes]

\* compute
compute(minutes, blueprint) ==
    compute_recurse(<<>>, blueprint, initial_state(minutes)).score

Init19 ==
    /\ blueprint19 \in Blueprints19
    /\ minutes19 \in 0..MaxMinutes19
    /\ result19 = 0
    /\ robots19 = <<1, 0, 0, 0>>
    /\ resources19 = <<0, 0, 0, 0>>
    /\ budget19 = minutes19
    /\ pc19 = "compute"

\* compute(minutes, blueprint)
Compute19 ==
    /\ pc19 = "compute"
    /\ result19' = compute(minutes19, blueprint19)
    /\ pc19' = "schedule"
    /\ UNCHANGED <<blueprint19, minutes19, robots19, resources19, budget19>>
    /\ UNCHANGED Others19

Schedule19 == [robots |-> robots19, resources |-> resources19, budget |-> budget19]

\* A minute of a build schedule in which no robot is built
Wait19 ==
    /\ pc19 = "schedule"
    /\ budget19 > 0
    /\ LET next == minute(blueprint19, Schedule19, 1, FALSE)
       IN /\ robots19' = next.robots
          /\ resources19' = next.resources
          /\ budget19' = next.budget
    /\ UNCHANGED <<blueprint19, minutes19, result19, pc19>>
    /\ UNCHANGED Others19

\* A minute of a build schedule in which a robot is built, paid from the
\* resources held at the start of the minute; the schedules of the model hold
\* no more ore, clay and obsidian robots than the blueprint's caps
Build19 ==
    /\ pc19 = "schedule"
    /\ budget19 > 0
    /\ \E build_index \in 1..4 :
          /\ affordable(blueprint19, Schedule19, build_index)
          /\ build_index <= 3 => robots19[build_index] < blueprint19.caps[build_index]
          /\ LET next == minute(blueprint19, Schedule19, build_index, TRUE)
             IN /\ robots19' = next.robots
                /\ resources19' = next.resources
                /\ budget19' = next.budget
    /\ UNCHANGED <<blueprint19, minutes19, result19, pc19>>
    /\ UNCHANGED Others19

Next19 ==
    \/ Compute19
    \/ Wait19
    \/ Build19

Start19 == Init19 /\ Idle24 /\ Idle16 /\ Idle12 /\ Idle15 /\ Idle17 /\ Idle13 /\ Idle21 /\ Idle23 /\ Idle18 /\ Idle25 /\ IdleWT /\ IdleRG /\ Idle20 /\ Idle14 /\ IdleSH

Spec19 == Start19 /\ [][Next19]_vars

\* C12: compute(minutes, blueprint) is the greatest number of geodes of a build
\* schedule of `minutes` minutes: no finished schedule holds more geodes than
\* compute returned
C12_ComputeIsMaximum ==
    (pc19 = "schedule" /\ budget19 = 0) => resources19[4] <= result19

(***************************************************************************)
(* Day 18: the lava droplet.  Cube coordinates are i8: an overflowing      *)
(* addition panics in a debug build and wraps in a release build.          *)
(***************************************************************************)
MaxOrigin18 == 125

MaxCubes18 == 7

I8Min == 0 - 128

I8Max == 127

\* The i8 value of an integer, wrapped
i8(v) == ((v + 128) % 256) - 128

\* Cube::new
Cube_new(x, y, z) == <<x, y, z>>

\* Cube::adjacent_cubes, the sums wrapped
adjacent_cubes(self) ==
    << Cube_new(i8(self[1] + 1), self[2], self[3]),
       Cube_new(i8(self[1] - 1), self[2], self[3]),
       Cube_new(self[1], i8(self[2] + 1), self[3]),
       Cube_new(self[1], i8(self[2] - 1), self[3]),
       Cube_new(self[1], self[2], i8(self[3] + 1)),
       Cube_new(self[1], self[2], i8(self[3] - 1)) >>

\* Cube::adjacent_cubes: one of the sums overflows
adjacent_overflow(self) ==
    \E k \in 1..3 : self[k] = I8Max \/ self[k] = I8Min

\* BBox::new
BBox_new(cube) ==
    [min |-> cube, max |-> Cube_new(i8(cube[1] + 1), i8(cube[2] + 1), i8(cube[3] + 1))]

\* BBox::extend
BBox_extend(self, cube) ==
    [min |-> [k \in 1..3 |-> isize_min(self.min[k], cube[k])],
     max |-> [k \in 1..3 |-> isize_max(self.max[k], i8(cube[k] + 1))]]

\* BBox::loosely_contains, the sums wrapped
loosely_contains(self, cube) ==
    /\ \A k \in 1..3 : cube[k] >= i8(self.min[k] - 1)
    /\ \A k \in 1..3 : cube[k] < i8(self.max[k] + 1)

\* BBox::loosely_contains: a sum that is evaluated overflows (the conjunction
\* stops at its first false term)
loosely_overflow(self, cube) ==
    \/ \E k \in 1..3 :
          /\ self.min[k] = I8Min
          /\ \A j \in 1..(k - 1) : cube[j] >= self.min[j] - 1
    \/ /\ \A j \in 1..3 : self.min[j] # I8Min /\ cube[j] >= self.min[j] - 1
       /\ \E k \in 1..3 :
             /\ self.max[k] = I8Max
             /\ \A j \in 1..(k - 1) : cube[j] < self.max[j] + 1

RECURSIVE adjacent_loop(_, _, _, _, _)
\* exterior_surface_area, lines 102-108: the loop over parent.adjacent_cubes()
adjacent_loop(debug, cubes, bbox, adjacent, acc) ==
    IF adjacent = <<>> \/ acc.panic THEN acc
    ELSE LET cube == Head(adjacent)
         IN adjacent_loop(debug, cubes, bbox, Tail(adjacent),
              IF cube \in cubes THEN [acc EXCEPT !.result = @ + 1]
              ELSE IF debug /\ loosely_overflow(bbox, cube)
                   THEN [acc EXCEPT !.panic = TRUE]
              ELSE IF loosely_contains(bbox, cube) /\ cube \notin acc.seen
                   THEN [acc EXCEPT !.seen = @ \cup {cube},
                                    !.queue = Append(@, cube)]
              ELSE acc)

RECURSIVE flood(_, _, _, _)
\* exterior_surface_area, lines 101-109: the while loop
flood(debug, cubes, bbox, acc) ==
    IF acc.queue = <<>> \/ acc.panic THEN acc
    ELSE LET parent == acc.queue[Len(acc.queue)]
             popped == [acc EXCEPT !.queue = SubSeq(@, 1, Len(@) - 1)]
         IN IF debug /\ adjacent_overflow(parent)
            THEN [acc EXCEPT !.panic = TRUE]
            ELSE flood(debug, cubes, bbox,
                       adjacent_loop(debug, cubes, bbox, adjacent_cubes(parent), popped))

\* Droplet::exterior_surface_area
exterior_surface_area(debug, cubes, bbox) ==
    IF bbox = <<>> THEN [panic |-> FALSE, result |-> 0]
    ELSE LET acc == flood(debug, cubes, bbox,
                          [queue |-> <<bbox.max>>, seen |-> {bbox.max},
                           result |-> 0, panic |-> FALSE])
         IN [panic |-> acc.panic, result |-> acc.result]

\* The cells of the model: a cell, its six neighbours and a cell two steps
\* away, with x from origin to origin + 2
Cells18(origin) ==
    { Cube_new(origin + 1 + d[1], 1 + d[2], 1 + d[3]) :
        d \in { v \in ((0 - 1)..1) \X ((0 - 1)..1) \X ((0 - 1)..2) :
                  \/ Abs(v[1]) + Abs(v[2]) + Abs(v[3]) <= 1
                  \/ v = <<0, 0, 2>> } }

Init18 ==
    /\ build18 \in {"debug", "release"}
    /\ origin18 \in {0, MaxOrigin18 - 1}
    /\ cubes18 = {}
    /\ total_surface_area18 = 0
    /\ bbox18 = <<>>
    /\ result18 = 0
    /\ pc18 = "parse"

\* Droplet::add_cube, for a cube of the input that is not yet in the droplet
AddCube18 ==
    /\ pc18 = "parse"
    /\ Cardinality(cubes18) < MaxCubes18
    /\ \E cube \in Cells18(origin18) \ cubes18 :
          /\ cubes18' = cubes18 \cup {cube}
          /\ total_surface_area18' =
                total_surface_area18 + 6
                  - 2 * Cardinality({ k \in 1..6 : adjacent_cubes(cube)[k] \in cubes18 })
          /\ bbox18' = IF bbox18 = <<>> THEN BBox_new(cube)
                       ELSE BBox_extend(bbox18, cube)
    /\ UNCHANGED <<build18, origin18, result18, pc18>>
    /\ UNCHANGED Others18

\* solve_2, line 138: droplet.exterior_surface_area() returns
Exterior18 ==
    /\ pc18 = "parse"
    /\ LET area == exterior_surface_area(build18 = "debug", cubes18, bbox18)
       IN /\ ~area.panic
          /\ result18' = area.result
          /\ pc18' = "done"
    /\ UNCHANGED <<build18, origin18, cubes18, total_surface_area18, bbox18>>
    /\ UNCHANGED Others18

\* solve_2, line 138: droplet.exterior_surface_area() panics
ExteriorPanic18 ==
    /\ pc18 = "parse"
    /\ exterior_surface_area(build18 = "debug", cubes18, bbox18).panic
    /\ pc18' = "panic"
    /\ UNCHANGED <<build18, origin18, cubes18, total_surface_area18, bbox18, result18>>
    /\ UNCHANGED Others18

Next18 ==
    \/ AddCube18
    \/ Exterior18
    \/ ExteriorPanic18

Start18 == Init18 /\ Idle24 /\ Idle16 /\ Idle12 /\ Idle15 /\ Idle17 /\ Idle13 /\ Idle21 /\ Idle23 /\ Idle19 /\ Idle25 /\ IdleWT /\ IdleRG /\ Idle20 /\ Idle14 /\ IdleSH

Spec18 == Start18 /\ [][Next18]_vars

\* The six cells across the faces of a cell, in the integers
Faces18(c) ==
    { <<c[1] + 1, c[2], c[3]>>, <<c[1] - 1, c[2], c[3]>>, <<c[1], c[2] + 1, c[3]>>,
      <<c[1], c[2] - 1, c[3]>>, <<c[1], c[2], c[3] + 1>>, <<c[1], c[2], c[3] - 1>> }

\* The cells of the droplet's bounding box and of the layer around it
Box18(cubes, margin) ==
    LET lo(k) == Min({ c[k] : c \in cubes }) - margin
        hi(k) == Max({ c[k] : c \in cubes }) + margin
    IN (lo(1)..hi(1)) \X (lo(2)..hi(2)) \X (lo(3)..hi(3))

RECURSIVE Outside18(_, _)
\* The empty cells that 6-neighbour steps through empty cells connect to the
\* region outside the bounding box, from the ones found so far
Outside18(cubes, found) ==
    LET more == { c \in Box18(cubes, 0) \ (cubes \cup found) : Faces18(c) \cap found # {} }
    IN IF more = {} THEN found ELSE Outside18(cubes, found \cup more)

\* The number of (cube, face) pairs whose cell across the face is empty and
\* connected to the outside
ExteriorFaces18(cubes) ==
    IF cubes = {} THEN 0
    ELSE LET outside == Outside18(cubes, Box18(cubes, 1) \ Box18(cubes, 0))
         IN Cardinality({ p \in cubes \X outside : p[2] \in Faces18(p[1]) })

\* C13: exterior_surface_area returns the number of faces of the droplet's
\* cubes that border an empty cell connected to the outside of the bounding box
C13_ExteriorSurfaceArea ==
    /\ pc18 = "done" => result18 = ExteriorFaces18(cubes18)
    /\ pc18 # "panic"

\* The same for droplets that keep away from the ends of the i8 range
C13_AwayFromI8Ends ==
    origin18 = 0 =>
        /\ pc18 = "done" => result18 = ExteriorFaces18(cubes18)
        /\ pc18 # "panic"

\* exterior_surface_area has returned for a droplet with an enclosed air pocket
Pocket18 ==
    /\ pc18 = "done" /\ origin18 = 0
    /\ result18 < total_surface_area18
    /\ Cube_new(1, 1, 1) \notin cubes18

(***************************************************************************)
(* Day 25: the balanced base-5 numerals.  i64 values are kept as the four  *)
(* 16-bit limbs of their two's complement, the most significant first; an  *)
(* overflowing operation panics in a debug build and wraps in a release    *)
(* build.                                                                  *)
(***************************************************************************)
MaxSmall25 == 130

MaxTop25 == 3

MaxPlace25 == 27

\* i64::MAX - k
I64Top(k) == <<Pow2(15) - 1, Limb - 1, Limb - 1, Limb - 1 - k>>

\* The sign bit of an i64
I64Negative(a) == a[1] >= Pow2(15)

RECURSIVE I64Add(_, _, _, _)
\* i64 wrapping a + b + carry, from limb i down
I64Add(a, b, i, carry) ==
    IF i < 1 THEN <<>>
    ELSE LET cur == a[i] + b[i] + carry
         IN I64Add(a, b, i - 1, cur \div Limb) \o <<cur % Limb>>

\* i64 wrapping negation
I64Neg(a) == I64Add([i \in 1..4 |-> Limb - 1 - a[i]], U64(0), 4, 1)

\* i64 +: the sum overflows
I64AddOverflow(a, b) ==
    /\ I64Negative(a) = I64Negative(b)
    /\ I64Negative(I64Add(a, b, 4, 0)) # I64Negative(a)

\* The text of a digit value of to_base_5
DigitChar(digit) ==
    CASE digit = 0 - 2 -> "="
      [] digit = 0 - 1 -> "-"
      [] digit = 0 -> "0"
      [] digit = 1 -> "1"
      [] digit = 2 -> "2"
      [] OTHER -> "panic"

\* The value of a digit of from_base_5, 9 for the panic branch
CharDigit(c) ==
    CASE c = "=" -> 0 - 2
      [] c = "-" -> 0 - 1
      [] c = "0" -> 0
      [] c = "1" -> 1
      [] c = "2" -> 2
      [] OTHER -> 9

\* What a function call comes to: a returned value, the panic branch of a
\* match ("panic") or a panic of the arithmetic ("overflow")
Returned(value) == [status |-> "ok", value |-> value]

Failed(status) == [status |-> status, value |-> <<>>]

RECURSIVE to_base_5_loop(_, _, _)
\* to_base_5, lines 3-14, for base_10 >= 0
to_base_5_loop(debug, base_10, result) ==
    IF base_10 = U64(0) THEN Returned(result)
    ELSE LET sum == I64Add(base_10, U64(2), 4, 0)
         IN IF I64Negative(sum)
            THEN \* base_10 + 2 has overflowed
                 IF debug THEN Failed("overflow")
                 ELSE LET divided == U64DivRem(I64Neg(sum), 5, 1, 0)
                          digit == (0 - divided[5]) - 2
                      IN IF DigitChar(digit) = "panic" THEN Failed("panic")
                         ELSE Failed("negative")
            ELSE LET divided == U64DivRem(sum, 5, 1, 0)
                     digit == divided[5] - 2
                 IN IF DigitChar(digit) = "panic" THEN Failed("panic")
                    ELSE to_base_5_loop(debug, SubSeq(divided, 1, 4),
                                        <<DigitChar(digit)>> \o result)

\* to_base_5
to_base_5(debug, base_10) == to_base_5_loop(debug, base_10, <<>>)

RECURSIVE from_base_5_loop(_, _, _, _, _)
\* from_base_5, lines 20-31: the characters from the last one, place counted
\* from 0; power is 5i64.pow(place), wrapped
from_base_5_loop(debug, base_5, place, power, result) ==
    IF place = Len(base_5) THEN Returned(result)
    ELSE LET digit == CharDigit(base_5[Len(base_5) - place])
             scaled == U64MulAdd(power, Abs(digit), 4, 0)
             term == IF digit < 0 THEN I64Neg(scaled) ELSE scaled
         IN IF digit = 9 THEN Failed("panic")
            ELSE IF (place > MaxPlace25 \/ I64Negative(scaled)
                        \/ I64AddOverflow(result, term)) /\ debug
            THEN Failed("overflow")
            ELSE from_base_5_loop(debug, base_5, place + 1,
                                  U64MulAdd(power, 5, 4, 0),
                                  I64Add(result, term, 4, 0))

\* from_base_5
from_base_5(debug, base_5) == from_base_5_loop(debug, base_5, 0, U64(1), U64(0))

\* The numbers of the model: 0 .. MaxSmall25 and i64::MAX - MaxTop25 .. i64::MAX
Numbers25 ==
    { U64(n) : n \in 0..MaxSmall25 } \cup { I64Top(k) : k \in 0..MaxTop25 }

Init25 ==
    /\ build25 \in {"debug", "release"}
    /\ base_10_25 \in Numbers25
    /\ base_5_25 = <<>>
    /\ result25 = <<>>
    /\ pc25 = "to_base_5"

\* to_base_5 returns
ToBase25 ==
    /\ pc25 = "to_base_5"
    /\ LET text == to_base_5(build25 = "debug", base_10_25)
       IN /\ text.status = "ok"
          /\ base_5_25' = text.value
    /\ pc25' = "from_base_5"
    /\ UNCHANGED <<build25, base_10_25, result25>>
    /\ UNCHANGED Others25

\* to_base_5 panics
ToBasePanic25 ==
    /\ pc25 = "to_base_5"
    /\ LET text == to_base_5(build25 = "debug", base_10_25)
       IN /\ text.status \in {"panic", "overflow"}
          /\ pc25' = text.status
    /\ UNCHANGED <<build25, base_10_25, base_5_25, result25>>
    /\ UNCHANGED Others25

\* from_base_5 returns
FromBase25 ==
    /\ pc25 = "from_base_5"
    /\ LET number == from_base_5(build25 = "debug", base_5_25)
       IN /\ number.status = "ok"
          /\ result25' = number.value
    /\ pc25' = "done"
    /\ UNCHANGED <<build25, base_10_25, base_5_25>>
    /\ UNCHANGED Others25

Next25 ==
    \/ ToBase25
    \/ ToBasePanic25
    \/ FromBase25

Start25 == Init25 /\ Idle24 /\ Idle16 /\ Idle12 /\ Idle15 /\ Idle17 /\ Idle13 /\ Idle21 /\ Idle23 /\ Idle19 /\ Idle18 /\ IdleWT /\ IdleRG /\ Idle20 /\ Idle14 /\ IdleSH

Spec25 == Start25 /\ [][Next25]_vars

\* C14: for every n >= 0 to_base_5(n) does not reach its panic branch, is made
\* of the digits = - 0 1 2 only, and from_base_5 reads n back from it
C14_RoundTrip ==
    /\ pc25 \notin {"panic", "overflow"}
    /\ \A k \in DOMAIN base_5_25 : base_5_25[k] \in {"=", "-", "0", "1", "2"}
    /\ pc25 = "done" => result25 = base_10_25

\* The same for n <= i64::MAX - 2
C14_BelowTop ==
    base_10_25 \notin {I64Top(0), I64Top(1)} =>
        /\ pc25 \notin {"panic", "overflow"}
        /\ \A k \in DOMAIN base_5_25 : base_5_25[k] \in {"=", "-", "0", "1", "2"}
        /\ pc25 = "done" => result25 = base_10_25

\* A number with a negative digit has been read back
C14_NegativeDigitReadBack ==
    /\ pc25 = "done"
    /\ \E k \in DOMAIN base_5_25 : base_5_25[k] \in {"=", "-"}

(***************************************************************************)
(* Day 20: the circular list.  A node is its index in List::nodes, from 1; *)
(* the list is the next and prev pointers of the nodes.                    *)
(***************************************************************************)
MaxNodes20 == 5

MaxOffset20 == 9

\* List::new, lines 81-84: the nodes linked in a ring in the order of the values
List_new(n) ==
    [next |-> [k \in 1..n |-> (k % n) + 1],
     prev |-> [k \in 1..n |-> ((k - 2) % n) + 1]]

RECURSIVE NodeIter_nth(_, _, _, _)
\* NodeIter::next called 1 + distance times: the last node returned
NodeIter_nth(list, backwards, node, distance) ==
    IF distance = 0 THEN node
    ELSE NodeIter_nth(list, backwards,
                      IF backwards THEN list.prev[node] ELSE list.next[node],
                      distance - 1)

\* isize::rem_euclid for a positive divisor
rem_euclid(a, b) == IF a >= 0 THEN a % b ELSE (b - ((0 - a) % b)) % b

\* List::shift with the node always walked to forwards
shift_target_forwards(len, offset) ==
    [distance |-> rem_euclid(offset, len) % (len \div 2 + 1), backwards |-> FALSE]

\* List::shift, lines 108-114: how far to walk, and in which direction
shift_target(len, offset) ==
    LET distance == rem_euclid(offset, len)
    IN IF distance > len \div 2
       THEN [distance |-> len - distance, backwards |-> TRUE]
       ELSE [distance |-> distance, backwards |-> FALSE]

\* List::shift
List_shift(list, node, offset) ==
    LET prev == list.prev[node]
        next == list.next[node]
        removed == [list EXCEPT !.next[prev] = next, !.prev[next] = prev]
        len == Len(list.next) - 1
        target == shift_target(len, offset)
        new_prev == NodeIter_nth(removed, target.backwards, prev, target.distance)
        new_next == removed.next[new_prev]
    IN [next |-> [[removed.next EXCEPT ![new_prev] = node] EXCEPT ![node] = new_next],
        prev |-> [[removed.prev EXCEPT ![new_next] = node] EXCEPT ![node] = new_prev]]

Init20 ==
    /\ \E n \in 2..MaxNodes20 : list20 = List_new(n)
    /\ before20 = list20
    /\ node20 = 1
    /\ offset20 = 0
    /\ pc20 = "new"

\* List::shift(node, offset)
Shift20 ==
    /\ \E node \in DOMAIN list20.next, offset \in (0 - MaxOffset20)..MaxOffset20 :
          /\ list20' = List_shift(list20, node, offset)
          /\ node20' = node
          /\ offset20' = offset
    /\ before20' = list20
    /\ pc20' = "shifted"
    /\ UNCHANGED Others20

Next20 ==
    \/ Shift20

Start20 == Init20 /\ Idle24 /\ Idle16 /\ Idle12 /\ Idle15 /\ Idle17 /\ Idle13 /\ Idle21 /\ Idle23 /\ Idle19 /\ Idle18 /\ Idle25 /\ IdleWT /\ IdleRG /\ Idle14 /\ IdleSH

Spec20 == Start20 /\ [][Next20]_vars

RECURSIVE Ring20(_, _, _)
\* The k nodes met from node on following the next pointers
Ring20(list, node, k) ==
    IF k = 0 THEN <<>> ELSE <<node>> \o Ring20(list, list.next[node], k - 1)

\* The other nodes in their cyclic order, from the successor of node to its
\* predecessor
Others20Of(list, node) == Tail(Ring20(list, node, Len(list.next)))

\* The list is one ring and prev is the inverse of next
IsRing20(list) ==
    /\ { Ring20(list, 1, Len(list.next))[k] : k \in 1..Len(list.next) } = DOMAIN list.next
    /\ \A k \in DOMAIN list.next : list.prev[list.next[k]] = k

\* The other nodes after node has been put d places after its predecessor
Moved20(list, node, d) ==
    LET others == Others20Of(list, node)
        len == Len(others)
    IN [k \in 1..len |-> others[((k - 1 + d) % len) + 1]]

\* C19: List::shift(node, offset) keeps the cyclic order of the other nodes and
\* puts node (offset mod (n - 1)) places after its former predecessor; offsets
\* congruent mod n - 1 give the same list and a multiple of n - 1 gives the
\* list back
C19_ShiftByOffsetModLen ==
    LET n == Len(list20.next)
    IN /\ IsRing20(list20)
       /\ pc20 = "shifted" =>
             Others20Of(list20, node20)
                = Moved20(before20, node20,
                          CHOOSE d \in 0..(n - 2) : (offset20 - d) % (n - 1) = 0)
       /\ \A node \in 1..n, offset \in (0 - MaxOffset20)..MaxOffset20 :
             /\ List_shift(list20, node, offset + (n - 1)) = List_shift(list20, node, offset)
             /\ List_shift(list20, node, offset * (n - 1)) = list20

\* A node of a list of five was shifted by a negative offset that List::shift
\* walks backwards, from a list that earlier shifts had reordered
C19_Witness ==
    /\ pc20 = "shifted"
    /\ Len(list20.next) = 5
    /\ offset20 < 0
    /\ shift_target(4, offset20).backwards
    /\ before20 # List_new(5)
    /\ list20 # before20

(***************************************************************************)
(* Day 14: the cave of falling sand.  Cells keeps the occupied cells and   *)
(* the two corners of their bounds; add_line adds the cells of a wall.     *)
(* An Option is the empty tuple (None) or the pair it holds (Some).        *)
(***************************************************************************)
MaxCoord14 == 2

MaxLines14 == 3

Coords14 == (0 - 1) .. MaxCoord14

Points14 == Coords14 \X Coords14

None == <<>>

Line_new(p1, p2) ==
    IF p1[1] = p2[1]
    THEN [kind |-> "Vertical", fixed |-> p1[1],
          lo |-> isize_min(p1[2], p2[2]), hi |-> isize_max(p1[2], p2[2])]
    ELSE IF p1[2] = p2[2]
    THEN [kind |-> "Horizontal", fixed |-> p1[2],
          lo |-> isize_min(p1[1], p2[1]), hi |-> isize_max(p1[1], p2[1])]
    ELSE [kind |-> "panic", fixed |-> 0, lo |-> 0, hi |-> 0]

Cells_new == [occupied_cells |-> <<>>, min_bound |-> None, max_bound |-> None]

new_min_bound(cells, point) ==
    IF cells.min_bound # None
    THEN <<isize_min(cells.min_bound[1], point[1]),
           isize_min(cells.min_bound[2], point[2])>>
    ELSE <<point[1], 0>>

new_max_bound(cells, point) ==
    IF cells.max_bound # None
    THEN <<isize_max(cells.max_bound[1], point[1]),
           isize_max(cells.max_bound[2], point[2])>>
    ELSE point

line_points(line) ==
    IF line.kind = "Horizontal"
    THEN [i \in 1 .. (line.hi - line.lo + 1) |-> <<line.lo + i - 1, line.fixed>>]
    ELSE [i \in 1 .. (line.hi - line.lo + 1) |-> <<line.fixed, line.lo + i - 1>>]

RECURSIVE add_line_loop(_, _, _)
add_line_loop(cells, points, i) ==
    IF i > Len(points)
    THEN cells
    ELSE add_line_loop(
            [occupied_cells |-> (points[i] :> "Wall") @@ cells.occupied_cells,
             min_bound |-> new_min_bound(cells, points[i]),
             max_bound |-> new_max_bound(cells, points[i])],
            points, i + 1)

add_line(cells, line) == add_line_loop(cells, line_points(line), 1)

Init14 ==
    /\ cells14 = Cells_new
    /\ count14 = 0
    /\ pc14 = "lines"

AddLine14 ==
    /\ pc14 = "lines"
    /\ count14 < MaxLines14
    /\ \E p1 \in Points14, p2 \in Points14 :
          /\ Line_new(p1, p2).kind # "panic"
          /\ cells14' = add_line(cells14, Line_new(p1, p2))
    /\ count14' = count14 + 1
    /\ pc14' = pc14
    /\ UNCHANGED Others14

LinePanic14 ==
    /\ pc14 = "lines"
    /\ count14 < MaxLines14
    /\ \E p1 \in Points14, p2 \in Points14 : Line_new(p1, p2).kind = "panic"
    /\ pc14' = "panic"
    /\ UNCHANGED <<cells14, count14>>
    /\ UNCHANGED Others14

Next14 == AddLine14 \/ LinePanic14

Start14 == Init14 /\ Idle24 /\ Idle16 /\ Idle12 /\ Idle15 /\ Idle17 /\ Idle13 /\ Idle21 /\ Idle23 /\ Idle19 /\ Idle18 /\ Idle25 /\ IdleWT /\ IdleRG /\ Idle20 /\ IdleSH

Spec14 == Start14 /\ [][Next14]_vars

Walls14 == { p \in DOMAIN cells14.occupied_cells : cells14.occupied_cells[p] = "Wall" }

WallXs14 == { p[1] : p \in Walls14 }

WallYs14 == { p[2] : p \in Walls14 }

\* C20: after any sequence of add_line calls, min_bound is the component-wise
\* minimum and max_bound the component-wise maximum of the coordinates of
\* all wall cells added so far, in x and in y.
C20_BoundsAreMinMaxOfWalls ==
    (pc14 # "idle" /\ count14 > 0) =>
        /\ cells14.min_bound = <<Min(WallXs14), Min(WallYs14)>>
        /\ cells14.max_bound = <<Max(WallXs14), Max(WallYs14)>>

\* What add_line keeps: the first point sets the row of min_bound to 0 in
\* place of its own row, so that row is 0 when no wall lies above row 0 and
\* lies between the least row of the walls and 0 otherwise; the other three
\* components are the least column, the greatest column and the greatest row.
C20_MinRowStartsAtZero ==
    (pc14 # "idle" /\ count14 > 0) =>
        /\ cells14.min_bound[1] = Min(WallXs14)
        /\ cells14.min_bound[2] <= 0
        /\ cells14.min_bound[2] >= Min(WallYs14 \cup {0})
        /\ (\A y \in WallYs14 : y >= 0) => cells14.min_bound[2] = 0
        /\ cells14.max_bound = <<Max(WallXs14), Max(WallYs14)>>

\* A wall whose cells all lie below row 0 has been added.
C20_WallsBelowRowZero ==
    /\ pc14 # "idle"
    /\ count14 > 0
    /\ \A y \in WallYs14 : y > 0

(***************************************************************************)
(* Day 24: the blizzard basin.                                             *)
(***************************************************************************)
\* The <<width, height>> of the basins of the model.
Sizes24 == {<<1, 1>>, <<2, 1>>, <<1, 2>>, <<3, 1>>, <<1, 3>>, <<2, 2>>}

MaxWinds24 == 2
MaxDepart24 == 2
MaxTime24 == 14

WindChars == {"^", "v", "<", ">"}

\* WindTracker::new
WindTracker_new(length) == [l_bits |-> 0, r_bits |-> 0, length |-> length]

\* WindTracker::set_rightward
set_rightward(w, pos) == [w EXCEPT !.l_bits = BitOr(w.l_bits, Shl(1, pos))]

\* set_leftward setting the bit of a rightward wind
set_leftward_as_rightward(w, pos) == set_rightward(w, pos)

\* WindTracker::set_leftward
set_leftward(w, pos) == [w EXCEPT !.r_bits = BitOr(w.r_bits, Shl(1, pos))]

\* WindTracker::is_clear
is_clear(w, time, pos) ==
    LET t == time % w.length
        m0 == Shl(1, w.length - t) - 1
        m1 == Shl(1, t) - 1
        bits == BitOr(BitOr(Shl(BitAnd(w.l_bits, m0), t),
                            BitAnd(Shr(w.l_bits, w.length - t), m1)),
                      BitOr(BitAnd(Shr(w.r_bits, t), m0),
                            Shl(BitAnd(w.r_bits, m1), w.length - t)))
    IN BitAnd(bits, Shl(1, pos)) = 0

\* The puzzle text of a basin: the wall row with the start gate, the rows of
\* the basin between their walls, the wall row with the end gate.
WallRow(width, gate) == [i \in 1..(width + 2) |-> IF i = gate + 1 THEN "." ELSE "#"]

InputText24(grid) ==
    LET width == Len(grid[1])
    IN <<WallRow(width, 1)>>
       \o [y \in 1..Len(grid) |-> <<"#">> \o grid[y] \o <<"#">>]
       \o <<WallRow(width, width)>>

\* The basins of the model: every grid of a size in Sizes24 holding at most
\* MaxWinds24 blizzards.
Grids24 ==
    UNION { LET cells == (1..wh[1]) \X (1..wh[2])
            IN UNION { { [y \in 1..wh[2] |-> [x \in 1..wh[1] |->
                            IF <<x, y>> \in winds THEN d[<<x, y>>] ELSE "."]]
                         : d \in [winds -> WindChars] }
                       : winds \in { c \in SUBSET cells : Cardinality(c) <= MaxWinds24 } }
            : wh \in Sizes24 }

RECURSIVE SetWinds(_, _, _)
\* Board::new, the loops over the rows and their characters (lines 73-83):
\* cells is the sequence of <<x, y, c>> still to visit, 0-based.
SetWinds(b, cells, i) ==
    IF i > Len(cells) THEN b
    ELSE LET x == cells[i][1]
             y == cells[i][2]
             c == cells[i][3]
             nb == CASE c = "^" -> [b EXCEPT !.ver_winds[x + 1] = set_leftward(@, y)]
                     [] c = "v" -> [b EXCEPT !.ver_winds[x + 1] = set_rightward(@, y)]
                     [] c = "<" -> [b EXCEPT !.hor_winds[y + 1] = set_leftward(@, x)]
                     [] c = ">" -> [b EXCEPT !.hor_winds[y + 1] = set_rightward(@, x)]
                     [] OTHER -> b
         IN SetWinds(nb, cells, i + 1)

\* Board::new
Board_new(input) ==
    LET stripped == [i \in 1..Len(input) |-> SelectSeq(input[i], LAMBDA c : c # "#")]
        lines == SubSeq(stripped, 2, Len(stripped) - 1)
        width == Len(lines[1])
        height == Len(lines)
        cells == [k \in 1..(width * height) |->
                    LET y == (k - 1) \div width
                        x == (k - 1) % width
                    IN <<x, y, lines[y + 1][x + 1]>>]
        empty == [ver_winds |-> [x \in 1..width |-> WindTracker_new(height)],
                  hor_winds |-> [y \in 1..height |-> WindTracker_new(width)],
                  start_pos |-> <<0, -1>>,
                  end_pos |-> <<width - 1, height>>]
    IN SetWinds(empty, cells, 1)

\* Board::next_states, the closure valid_state
valid_state(b, s) ==
    LET width == Len(b.ver_winds)
        height == Len(b.hor_winds)
        x == s.pos[1]
        y == s.pos[2]
    IN IF s.pos = b.start_pos \/ s.pos = b.end_pos THEN TRUE
       ELSE IF x < 0 \/ y < 0 \/ x >= width \/ y >= height THEN FALSE
       ELSE is_clear(b.hor_winds[y + 1], s.time, x) /\ is_clear(b.ver_winds[x + 1], s.time, y)

Offsets24 == <<<<-1, 0>>, <<1, 0>>, <<0, -1>>, <<0, 1>>, <<0, 0>>>>

\* Board::next_states
next_states(b, state) ==
    SelectSeq([i \in 1..5 |-> [pos |-> <<state.pos[1] + Offsets24[i][1],
                                         state.pos[2] + Offsets24[i][2]>>,
                               time |-> state.time + 1]],
              LAMBDA s : valid_state(b, s))

\* wrap_cost without the negation that turns the max-heap into a min-heap.
wrap_cost_unnegated(end, s) ==
    LET dist_to_goal == Abs(s.pos[1] - end[1]) + Abs(s.pos[2] - end[2])
        best_case_cost == s.time + dist_to_goal
    IN <<best_case_cost, s.time, s.pos[1], s.pos[2]>>

\* Board::fastest_path, the closure wrap_cost: the heap entry of a state
wrap_cost(end, s) ==
    LET dist_to_goal == Abs(s.pos[1] - end[1]) + Abs(s.pos[2] - end[2])
        best_case_cost == s.time + dist_to_goal
    IN <<-best_case_cost, s.time, s.pos[1], s.pos[2]>>

\* The derived Ord of (isize, State): lexicographic on
\* (-best_case_cost, time, pos.0, pos.1).
EntryLess(a, b) ==
    \E i \in 1..4 : a[i] < b[i] /\ \A j \in 1..(i - 1) : a[j] = b[j]

\* BinaryHeap::pop: the greatest entry
HeapTop(q) == CHOOSE e \in BagToSet(q) : \A o \in BagToSet(q) : o = e \/ EntryLess(o, e)

RECURSIVE HeapExtend(_, _, _)
\* BinaryHeap::extend
HeapExtend(q, entries, i) ==
    IF i > Len(entries) THEN q
    ELSE HeapExtend(q (+) SetToBag({entries[i]}), entries, i + 1)

\* The windows without .cycle(): the two gates give one window.
Windows24_uncycled(b, lengths) == <<<<b.start_pos, b.end_pos>>>>

\* Board::solve, the windows of [start_pos, end_pos].cycle().take(LENGTHS + 1)
Windows24(b, lengths) ==
    [i \in 1..lengths |-> IF i % 2 = 1 THEN <<b.start_pos, b.end_pos>>
                                      ELSE <<b.end_pos, b.start_pos>>]

\* Entering Board::fastest_path(pos, end, time): the heap holds the start state.
Enter24(pos, end, time) ==
    SetToBag({wrap_cost(end, [time |-> time, pos |-> pos])})

Init24 ==
    /\ \E grid \in Grids24 : input24 = InputText24(grid)
    /\ board24 = Board_new(input24)
    /\ \/ /\ entry24 = "solve"
          /\ legs24 = Windows24(board24, 1)
          /\ time24 = 0
       \/ /\ entry24 = "solve_2"
          /\ legs24 = Windows24(board24, 3)
          /\ time24 = 0
       \/ /\ entry24 = "fastest_path"
          /\ legs24 \in { <<<<board24.start_pos, board24.end_pos>>>>,
                          <<<<board24.end_pos, board24.start_pos>>>> }
          /\ time24 \in 0..MaxDepart24
    /\ queue24 = Enter24(legs24[1][1], legs24[1][2], time24)
    /\ seen24 = {}
    /\ returns24 = <<>>
    /\ pc24 = "search"

Popped24 ==
    LET e == HeapTop(queue24)
    IN [time |-> e[2], pos |-> <<e[3], e[4]>>]

\* fastest_path, one turn of the loop: the popped state was seen before
PopSeen24 ==
    /\ pc24 = "search"
    /\ queue24 # EmptyBag
    /\ Popped24 \in seen24
    /\ queue24' = queue24 (-) SetToBag({HeapTop(queue24)})
    /\ UNCHANGED <<input24, entry24, board24, legs24, seen24, time24, returns24, pc24>>
    /\ UNCHANGED Others24

\* fastest_path, one turn of the loop: the popped state is new and not the end.
\* The search of the model stops at MaxTime24: later states are not queued.
PopExpand24 ==
    /\ pc24 = "search"
    /\ queue24 # EmptyBag
    /\ Popped24 \notin seen24
    /\ Popped24.pos # legs24[1][2]
    /\ seen24' = seen24 \cup {Popped24}
    /\ LET rest == queue24 (-) SetToBag({HeapTop(queue24)})
           succ == IF Popped24.time < MaxTime24
                   THEN next_states(board24, Popped24) ELSE <<>>
           entries == [i \in 1..Len(succ) |-> wrap_cost(legs24[1][2], succ[i])]
       IN queue24' = HeapExtend(rest, entries, 1)
    /\ UNCHANGED <<input24, entry24, board24, legs24, time24, returns24, pc24>>
    /\ UNCHANGED Others24

\* fastest_path returns state.time; Board::solve folds it into the next call
PopGoal24 ==
    /\ pc24 = "search"
    /\ queue24 # EmptyBag
    /\ Popped24 \notin seen24
    /\ Popped24.pos = legs24[1][2]
    /\ returns24' = Append(returns24, [pos |-> legs24[1][1], end |-> legs24[1][2],
                                       time |-> time24, ret |-> Popped24.time])
    /\ time24' = Popped24.time
    /\ legs24' = Tail(legs24)
    /\ IF Len(legs24) > 1
       THEN /\ queue24' = Enter24(legs24[2][1], legs24[2][2], Popped24.time)
            /\ seen24' = {}
            /\ pc24' = "search"
       ELSE /\ queue24' = EmptyBag
            /\ seen24' = {}
            /\ pc24' = "done"
    /\ UNCHANGED <<input24, entry24, board24>>
    /\ UNCHANGED Others24

\* The heap of the model is empty: no state up to MaxTime24 is left.  (The
\* code's loop does not end here, waiting on a gate is always a next state.)
Exhausted24 ==
    /\ pc24 = "search"
    /\ queue24 = EmptyBag
    /\ pc24' = "exhausted"
    /\ UNCHANGED <<input24, entry24, board24, legs24, queue24, seen24, time24, returns24>>
    /\ UNCHANGED Others24

Next24 ==
    \/ PopSeen24
    \/ PopExpand24
    \/ PopGoal24
    \/ Exhausted24

Start24 == Init24 /\ Idle16 /\ Idle12 /\ Idle15 /\ Idle17 /\ Idle13 /\ Idle21 /\ Idle23 /\ Idle19 /\ Idle18 /\ Idle25 /\ IdleWT /\ IdleRG /\ Idle20 /\ Idle14 /\ IdleSH

Spec24 == Start24 /\ [][Next24]_vars

(***************************************************************************)
(* Day 24, the claims.  The reference reads the blizzards off the puzzle   *)
(* text and moves them by modular arithmetic; it shares nothing with the   *)
(* bit masks of WindTracker or with the heap of fastest_path.              *)
(***************************************************************************)
Basin24 == [i \in 1..(Len(input24) - 2) |->
              SubSeq(input24[i + 1], 2, Len(input24[i + 1]) - 1)]

BasinWidth24 == Len(Basin24[1])

BasinHeight24 == Len(Basin24)

StartGate24 == <<0, -1>>

EndGate24 == <<BasinWidth24 - 1, BasinHeight24>>

\* A blizzard is on the cell (x, y) of the basin at minute t.
BlizzardAt24(x, y, t) ==
    \/ \E x0 \in 0..(BasinWidth24 - 1) :
          \/ Basin24[y + 1][x0 + 1] = ">" /\ (x0 + t) % BasinWidth24 = x
          \/ Basin24[y + 1][x0 + 1] = "<" /\ (x0 - t) % BasinWidth24 = x
    \/ \E y0 \in 0..(BasinHeight24 - 1) :
          \/ Basin24[y0 + 1][x + 1] = "v" /\ (y0 + t) % BasinHeight24 = y
          \/ Basin24[y0 + 1][x + 1] = "^" /\ (y0 - t) % BasinHeight24 = y

\* The cell p may be occupied at minute t.
Open24(p, t) ==
    \/ p = StartGate24
    \/ p = EndGate24
    \/ /\ p[1] \in 0..(BasinWidth24 - 1)
       /\ p[2] \in 0..(BasinHeight24 - 1)
       /\ ~BlizzardAt24(p[1], p[2], t)

Steps24(p) == { <<p[1] + d[1], p[2] + d[2]>> :
                  d \in {<<-1, 0>>, <<1, 0>>, <<0, -1>>, <<0, 1>>, <<0, 0>>} }

RECURSIVE Walks24(_, _, _)
\* The cells a walk of k steps that leaves pos at minute t can end on.
Walks24(pos, t, k) ==
    IF k = 0 THEN {pos}
    ELSE { q \in UNION { Steps24(p) : p \in Walks24(pos, t, k - 1) } : Open24(q, t + k) }

NoArrival == 0 - 1

\* The least minute T in t..MaxTime24 at which a walk from pos can stand on end.
LeastArrival24(pos, end, t) ==
    LET ks == { k \in 0..(MaxTime24 - t) : end \in Walks24(pos, t, k) }
    IN IF ks = {} THEN NoArrival ELSE t + Min(ks)

\* The state a call of fastest_path returned into: PopGoal24 alone empties
\* seen24 and appends to returns24.
Returned24 == returns24 # <<>> /\ seen24 = {}

LastReturn24 == returns24[Len(returns24)]

RECURSIVE Trips24(_)
\* The <<cell, gates reached>> pairs of the walks of k steps from the start
\* gate at minute 0: the trip reaches the end gate, then the start gate, then
\* the end gate.
Trips24(k) ==
    IF k = 0 THEN {<<StartGate24, 0>>}
    ELSE LET moved == UNION { { <<r, pn[2]>> : r \in { q \in Steps24(pn[1]) : Open24(q, k) } }
                                : pn \in Trips24(k - 1) }
             target(n) == IF n = 1 THEN StartGate24 ELSE EndGate24
         IN { <<m[1], IF m[2] < 3 /\ m[1] = target(m[2]) THEN m[2] + 1 ELSE m[2]>> :
                m \in moved }

\* The least minute in 0..MaxTime24 at which a whole trip is complete.
OptimalTrip24 ==
    LET ks == { k \in 0..MaxTime24 : \E pn \in Trips24(k) : pn[2] = 3 }
    IN IF ks = {} THEN NoArrival ELSE Min(ks)

ForeignChars24 == {"x", "E"}

\* The basins of the model with one cell overwritten by a foreign character
Scribbled24 ==
    { [grid EXCEPT ![c[2]][c[1]] = f] :
        <<grid, c, f>> \in
          { t \in Grids24 \X ((1..3) \X (1..3)) \X ForeignChars24 :
              t[2][2] <= Len(t[1]) /\ t[2][1] <= Len(t[1][1]) } }

InitText24 ==
    /\ \E grid \in Grids24 \cup Scribbled24 : input24 = InputText24(grid)
    /\ entry24 = "solve"
    /\ board24 = <<>>
    /\ legs24 = <<>>
    /\ time24 = 0
    /\ queue24 = EmptyBag
    /\ seen24 = {}
    /\ returns24 = <<>>
    /\ pc24 = "new"

\* solve, Board::new(input) and the entry into the first fastest_path
BoardNew24 ==
    /\ pc24 = "new"
    /\ board24' = Board_new(input24)
    /\ legs24' = Windows24(board24', 1)
    /\ queue24' = Enter24(legs24'[1][1], legs24'[1][2], time24)
    /\ pc24' = "search"
    /\ UNCHANGED <<input24, entry24, seen24, time24, returns24>>
    /\ UNCHANGED Others24

NextText24 ==
    \/ BoardNew24
    \/ PopSeen24
    \/ PopExpand24
    \/ PopGoal24
    \/ Exhausted24

StartText24 == InitText24 /\ Idle16 /\ Idle12 /\ Idle15 /\ Idle17 /\ Idle13 /\ Idle21 /\ Idle23 /\ Idle19 /\ Idle18 /\ Idle25 /\ IdleWT /\ IdleRG /\ Idle20 /\ Idle14 /\ IdleSH

SpecText24 == StartText24 /\ [][NextText24]_vars

\* A row of the text holds a character other than # . ^ v < >
Foreign24 ==
    \E y \in DOMAIN input24 : \E x \in DOMAIN input24[y] :
        input24[y][x] \notin {"#", ".", "^", "v", "<", ">"}

\* C15: a grid row with a character other than # . ^ v < > makes Board::new
\* panic: no board is built, no search starts and no number is returned
C15_ForeignCharacterPanics ==
    Foreign24 => (board24 = <<>> /\ pc24 \in {"new", "panic"} /\ returns24 = <<>>)

(***************************************************************************)
(* Day 24, a WindTracker alone.                                            *)
(***************************************************************************)
MaxLengthWT == 4

MaxTimeWT == 9

InitWT ==
    /\ \E length \in 1..MaxLengthWT : trackerWT = WindTracker_new(length)
    /\ rightwardWT = {}
    /\ leftwardWT = {}
    /\ timeWT = 0
    /\ posWT = 0
    /\ clearWT = FALSE
    /\ pcWT = "new"

\* WindTracker::set_rightward(pos)
SetRightwardWT ==
    /\ pcWT # "asked"
    /\ \E pos \in 0..(trackerWT.length - 1) :
          /\ trackerWT' = set_rightward(trackerWT, pos)
          /\ rightwardWT' = rightwardWT \cup {pos}
    /\ pcWT' = "set"
    /\ UNCHANGED <<leftwardWT, timeWT, posWT, clearWT>>
    /\ UNCHANGED OthersWT

\* WindTracker::set_leftward(pos)
SetLeftwardWT ==
    /\ pcWT # "asked"
    /\ \E pos \in 0..(trackerWT.length - 1) :
          /\ trackerWT' = set_leftward(trackerWT, pos)
          /\ leftwardWT' = leftwardWT \cup {pos}
    /\ pcWT' = "set"
    /\ UNCHANGED <<rightwardWT, timeWT, posWT, clearWT>>
    /\ UNCHANGED OthersWT

\* WindTracker::is_clear(time, pos), asked once the winds are set
IsClearWT ==
    /\ pcWT # "asked"
    /\ \E time \in 0..MaxTimeWT, pos \in 0..(trackerWT.length - 1) :
          /\ timeWT' = time
          /\ posWT' = pos
          /\ clearWT' = is_clear(trackerWT, time, pos)
    /\ pcWT' = "asked"
    /\ UNCHANGED <<trackerWT, rightwardWT, leftwardWT>>
    /\ UNCHANGED OthersWT

NextWT ==
    \/ SetRightwardWT
    \/ SetLeftwardWT
    \/ IsClearWT

StartWT == InitWT /\ Idle24 /\ Idle16 /\ Idle12 /\ Idle15 /\ Idle17 /\ Idle13 /\ Idle21 /\ Idle23 /\ Idle19 /\ Idle18 /\ Idle25 /\ IdleRG /\ Idle20 /\ Idle14 /\ IdleSH

SpecWT == StartWT /\ [][NextWT]_vars

\* C17: is_clear(t, pos) is true exactly when no rightward wind set at p has
\* (p + t) mod L = pos and no leftward wind set at p has (p - t) mod L = pos,
\* and is_clear(t + L, pos) = is_clear(t, pos)
C17_IsClearFollowsTheWinds ==
    /\ pcWT = "asked" =>
          clearWT = (/\ \A p \in rightwardWT : (p + timeWT) % trackerWT.length # posWT
                     /\ \A p \in leftwardWT : (p - timeWT) % trackerWT.length # posWT)
    /\ \A t \in 0..MaxTimeWT, pos \in 0..(trackerWT.length - 1) :
          is_clear(trackerWT, t + trackerWT.length, pos) = is_clear(trackerWT, t, pos)

\* is_clear has answered for a time beyond the length of a tracker that holds
\* a rightward and a leftward wind: one cell is blocked by a wind that has
\* gone round, another is clear
C17_Witness ==
    /\ pcWT = "asked"
    /\ timeWT > trackerWT.length
    /\ rightwardWT # {} /\ leftwardWT # {} /\ rightwardWT # leftwardWT
    /\ ~clearWT
    /\ \E pos \in 0..(trackerWT.length - 1) : is_clear(trackerWT, timeWT, pos)

(***************************************************************************)
(* Day 15, a Ranges alone.                                                 *)
(***************************************************************************)
MaxCoordRG == 5

MaxAddsRG == 3

\* Ranges::new
InitRG ==
    /\ rangesRG = <<>>
    /\ addedRG = {}

\* Ranges::add((a, b)) with a <= b
AddRG ==
    /\ Cardinality(addedRG) < MaxAddsRG
    /\ \E a \in 0..MaxCoordRG, b \in 0..MaxCoordRG :
          /\ a <= b
          /\ rangesRG' = Ranges_add(rangesRG, <<a, b>>)
          /\ addedRG' = addedRG \cup {<<a, b>>}
    /\ UNCHANGED OthersRG

NextRG ==
    \/ AddRG

StartRG == InitRG /\ Idle24 /\ Idle16 /\ Idle12 /\ Idle15 /\ Idle17 /\ Idle13 /\ Idle21 /\ Idle23 /\ Idle19 /\ Idle18 /\ Idle25 /\ IdleWT /\ Idle20 /\ Idle14 /\ IdleSH

SpecRG == StartRG /\ [][NextRG]_vars

\* C18: after any sequence of Ranges::add calls with a <= b the stored list is
\* sorted by start, the end of each range is below the start of the next, and
\* the stored ranges cover what the added ranges cover (the ranges read with
\* and without their end point)
C18_RangesSortedDisjointUnion ==
    /\ \A i \in 1..(Len(rangesRG) - 1) :
          /\ rangesRG[i][1] < rangesRG[i + 1][1]
          /\ rangesRG[i][2] < rangesRG[i + 1][1]
    /\ UNION { r[1]..r[2] : r \in { rangesRG[i] : i \in DOMAIN rangesRG } }
          = UNION { r[1]..r[2] : r \in addedRG }
    /\ UNION { r[1]..(r[2] - 1) : r \in { rangesRG[i] : i \in DOMAIN rangesRG } }
          = UNION { r[1]..(r[2] - 1) : r \in addedRG }

\* Three ranges were added, two of them apart, and the list holds the one
\* range that joins them
C18_Witness ==
    /\ Cardinality(addedRG) = 3
    /\ Len(rangesRG) = 1
    /\ rangesRG[1] \notin addedRG
    /\ \E r, s \in addedRG : r[2] < s[1] - 1

(***************************************************************************)
(* Day 17: a spawned shape under a sequence of Shape::shift calls.         *)
(***************************************************************************)
MaxShiftsSH == 7

InitSH ==
    /\ indexSH \in DOMAIN spawn
    /\ shapeSH = spawn[indexSH]
    /\ beforeSH = shapeSH
    /\ dirsSH = <<>>
    /\ pcSH = "spawned"

ShiftSH ==
    /\ pcSH \in {"spawned", "shifted"}
    /\ Len(dirsSH) < MaxShiftsSH
    /\ \E dir \in {"Left", "Right"} :
          /\ shapeSH' = shift(shapeSH, dir)
          /\ dirsSH' = Append(dirsSH, dir)
    /\ beforeSH' = shapeSH
    /\ pcSH' = "shifted"
    /\ UNCHANGED indexSH
    /\ UNCHANGED OthersSH

NextSH == ShiftSH

StartSH == InitSH /\ Idle24 /\ Idle16 /\ Idle12 /\ Idle15 /\ Idle17 /\ Idle13 /\ Idle21 /\ Idle23 /\ Idle19 /\ Idle18 /\ Idle25 /\ IdleWT /\ IdleRG /\ Idle20 /\ Idle14

SpecSH == StartSH /\ [][NextSH]_vars

\* The occupied cells of a shape: the row and the column of every set bit,
\* column 0 at bit 7.
CellsSH(shape) ==
    { c \in (DOMAIN shape.rows) \X (0 .. 7) :
        (shape.rows[c[1]] \div Pow2(7 - c[2])) % 2 = 1 }

MovedSH(cells, by) == { <<c[1], c[2] + by>> : c \in cells }

ColsSH(shape) == { c[2] : c \in CellsSH(shape) }

\* The column of the left edge after the shifts, walked one shift at a time
\* between the walls.
RECURSIVE WalkSH(_, _, _, _)
WalkSH(dirs, i, first, width) ==
    IF i > Len(dirs) THEN first
    ELSE IF dirs[i] = "Left"
    THEN WalkSH(dirs, i + 1, IF first = 0 THEN 0 ELSE first - 1, width)
    ELSE WalkSH(dirs, i + 1, IF first + width = WIDTH THEN first ELSE first + 1, width)

CrossesSH ==
    \/ dirsSH[Len(dirsSH)] = "Left" /\ Min(ColsSH(beforeSH)) = 0
    \/ dirsSH[Len(dirsSH)] = "Right" /\ Max(ColsSH(beforeSH)) = WIDTH - 1

\* C21: for each of the five spawned shapes and any sequence of shifts to
\* the left or right, every occupied cell stays in columns 0 .. WIDTH - 1
\* with 0 <= first_col <= last_col < WIDTH; a shift that would cross either
\* edge leaves rows, first_col and last_col unchanged, and any other shift
\* moves every row by exactly one column.
C21_ShiftStaysBetweenTheWalls ==
    pcSH \in {"spawned", "shifted"} =>
        /\ 0 <= shapeSH.first_col
        /\ shapeSH.first_col <= shapeSH.last_col
        /\ shapeSH.last_col < WIDTH
        /\ ColsSH(shapeSH) \subseteq 0 .. (WIDTH - 1)
        /\ shapeSH.first_col = Min(ColsSH(shapeSH))
        /\ shapeSH.last_col = Max(ColsSH(shapeSH))
        /\ DOMAIN shapeSH.rows = DOMAIN spawn[indexSH].rows
        /\ LET start == spawn[indexSH]
               first == WalkSH(dirsSH, 1, STARTING_COL,
                               start.last_col - start.first_col + 1)
           IN CellsSH(shapeSH) = MovedSH(CellsSH(start), first - STARTING_COL)
        /\ pcSH = "shifted" =>
              IF CrossesSH
              THEN shapeSH = beforeSH
              ELSE LET by == IF dirsSH[Len(dirsSH)] = "Left" THEN 0 - 1 ELSE 1
                   IN /\ CellsSH(shapeSH) = MovedSH(CellsSH(beforeSH), by)
                      /\ shapeSH.first_col = beforeSH.first_col + by
                      /\ shapeSH.last_col = beforeSH.last_col + by

\* The plus shape has been moved to the right wall and a further shift to
\* the right has left it in place.
C21_Witness ==
    /\ pcSH = "shifted"
    /\ indexSH = 2
    /\ dirsSH[Len(dirsSH)] = "Right"
    /\ beforeSH.last_col = WIDTH - 1
    /\ shapeSH = beforeSH
    /\ \E i \in DOMAIN dirsSH : dirsSH[i] = "Left"

====
